---------------------------- MODULE Spec2Model ----------------------------
(***************************************************************************)
(* libdwarfpp, src/frame.cpp: the call-frame-information row interpreter   *)
(* Fde::decode.  The interpreter walks the CIE's initial instructions and  *)
(* then the FDE's instructions (two calls of the lambda `interp`), keeping *)
(* a current register-rule table, a stack of remembered tables and the    *)
(* interval map `working` of committed rows.                               *)
(*                                                                         *)
(* A failed assert(...) aborts the decode: the model's outcome "aborted".  *)
(*                                                                         *)
(* The specifications: Spec is Fde::decode on decoded instruction lists,   *)
(* SpecConcurrent is two such calls interleaved in one process, SpecLeb is *)
(* a call of read_uleb128 or read_sleb128 on an encoded value, SpecDecoder *)
(* is the constructor frame_instrlist::frame_instrlist decoding a byte     *)
(* stream into instructions, SpecInterpInstrlist is that constructor as    *)
(* Fde::decode calls it, SpecRewriter is a call of                         *)
(* rewrite_loclist_in_terms_of_cfa, SpecEdges is the construction of the   *)
(* edge set of one row in that function, and SpecOpcodeArray is            *)
(* loc_expr::initialize_from_opcode_array (include/dwarfpp/expr.hpp) on an *)
(* opcode array.                                                           *)
(***************************************************************************)
EXTENDS Integers, Sequences, FiniteSets, TLC

\* ------------------------------------------------------------------------
\* Opcode values (fp_base_op << 6 | fp_extended_op), as switched on at
\* frame.cpp:363.
DW_CFA_advance_loc == 64
DW_CFA_offset == 128
DW_CFA_restore == 192
DW_CFA_nop == 0
DW_CFA_set_loc == 1
DW_CFA_advance_loc1 == 2
DW_CFA_advance_loc2 == 3
DW_CFA_advance_loc4 == 4
DW_CFA_offset_extended == 5
DW_CFA_restore_extended == 6
DW_CFA_undefined == 7
DW_CFA_same_value == 8
DW_CFA_register == 9
DW_CFA_remember_state == 10
DW_CFA_restore_state == 11
DW_CFA_def_cfa == 12
DW_CFA_def_cfa_register == 13
DW_CFA_def_cfa_offset == 14
DW_CFA_def_cfa_expression == 15
DW_CFA_expression == 16
DW_CFA_offset_extended_sf == 17
DW_CFA_def_cfa_sf == 18
DW_CFA_def_cfa_offset_sf == 19
DW_CFA_val_offset == 20
DW_CFA_val_offset_sf == 21
DW_CFA_val_expression == 22

\* The pseudo register number of the CFA column.
DW_FRAME_CFA_COL3 == 1436

\* ------------------------------------------------------------------------
\* Bounds of the model.

\* Longest FDE instruction list interpreted.
MaxFdeLen == 2

\* ------------------------------------------------------------------------
\* Dwarf_Frame_Op3 / frame_instr: one decoded CFI instruction.
frame_instr(code, reg, off, blk) ==
    [fp_base_op |-> code \div 64,
     fp_extended_op |-> code % 64,
     fp_register |-> reg,
     fp_offset_or_block_len |-> off,
     fp_expr_block |-> blk]

\* The value the interpreter switches on.
OpCode(i) == i.fp_base_op * 64 + i.fp_extended_op

\* ------------------------------------------------------------------------
\* Fde::register_def: a kind tag k and the value of that kind.
register_def(kind, r, o, e) == [k |-> kind, reg |-> r, off |-> o, expr |-> e]

undefined_w == register_def("UNDEFINED", 0, 0, <<>>)
same_value_w == register_def("SAME_VALUE", 0, 0, <<>>)
register_plus_offset_w(r, o) == register_def("REGISTER", r, o, <<>>)
saved_at_offset_from_cfa_w(o) == register_def("SAVED_AT_OFFSET_FROM_CFA", 0, o, <<>>)
val_is_offset_from_cfa_w(o) == register_def("VAL_IS_OFFSET_FROM_CFA", 0, o, <<>>)
saved_at_expr_w(e) == register_def("SAVED_AT_EXPR", 0, 0, e)
val_of_expr_w(e) == register_def("VAL_OF_EXPR", 0, 0, e)

\* What the pair of a register_def holds when the definition was last written
\* as another kind: the storage then holds the other kind's value, and
\* reading it as a pair gives a value the source does not determine.
IndeterminateInts == {0, 99}

\* encap::loc_expr(dbg, block, len): the expression of a block of opcode
\* bytes, kept as the block.
loc_expr(blk, len) == SubSeq(blk, 1, len)

\* ------------------------------------------------------------------------
\* std::map<int, register_def>: a function on the set of defined registers.
EmptyRow == [r \in {} |-> undefined_w]

\* m[key] = val
MapSet(m, key, val) ==
    [x \in (DOMAIN m) \cup {key} |-> IF x = key THEN val ELSE m[x]]

\* set<pair<int, register_def>>(m.begin(), m.end())
current_row_defs_set(m) == {<<r, m[r]>> : r \in DOMAIN m}

\* interval<Dwarf_Addr>::right_open(lo, hi)
right_open(lo, hi) == {a \in lo..(hi - 1) : TRUE}

\* boost::icl::interval_map<Dwarf_Addr, set<pair<int, register_def>>>,
\* kept as the set of <<address, <<register, register_def>>>> it associates:
\* `w += make_pair(interval, s)` joins s into the set of every address of the
\* interval, and an address whose set is empty is not in the map.
interval_map_add(w, ival, s) == w \cup {<<a, p>> : a \in ival, p \in s}

\* rows.find(addr)->second, the set associated with addr ({} if none).
RowAt(w, addr) == {t[2] : t \in {u \in w : u[1] = addr}}

\* The addresses the interval map covers.
Covered(w) == {t[1] : t \in w}

\* ------------------------------------------------------------------------
\* Inputs.

LowPcs == {4}
FuncLengths == {8}

BlockA == <<156>>

\* The instructions FDE instruction lists are drawn from.
FdeInstrs ==
    { frame_instr(DW_CFA_set_loc, 0, 4, <<>>),
      frame_instr(DW_CFA_set_loc, 0, 6, <<>>),
      frame_instr(DW_CFA_set_loc, 0, 8, <<>>),
      frame_instr(DW_CFA_advance_loc, 0, 4, <<>>),
      frame_instr(DW_CFA_advance_loc, 0, 0, <<>>),
      frame_instr(DW_CFA_advance_loc1, 0, 2, <<>>),
      frame_instr(DW_CFA_advance_loc2, 0, 12, <<>>),
      frame_instr(DW_CFA_advance_loc4, 0, 8, <<>>),
      frame_instr(DW_CFA_def_cfa, 7, 8, <<>>),
      frame_instr(DW_CFA_def_cfa_sf, 7, 24, <<>>),
      frame_instr(DW_CFA_def_cfa_register, 6, 0, <<>>),
      frame_instr(DW_CFA_def_cfa_offset, 0, 16, <<>>),
      frame_instr(DW_CFA_def_cfa_offset_sf, 0, 32, <<>>),
      frame_instr(DW_CFA_def_cfa_expression, 0, 1, BlockA),
      frame_instr(DW_CFA_undefined, 6, 0, <<>>),
      frame_instr(DW_CFA_same_value, 6, 0, <<>>),
      frame_instr(DW_CFA_offset, 6, 16, <<>>),
      frame_instr(DW_CFA_offset_extended, 6, 24, <<>>),
      frame_instr(DW_CFA_offset_extended_sf, 6, -8, <<>>),
      frame_instr(DW_CFA_val_offset, 6, 8, <<>>),
      frame_instr(DW_CFA_val_offset_sf, 6, -8, <<>>),
      frame_instr(DW_CFA_register, 6, 3, <<>>),
      frame_instr(DW_CFA_expression, 6, 1, BlockA),
      frame_instr(DW_CFA_val_expression, 6, 1, BlockA),
      frame_instr(DW_CFA_restore, 6, 0, <<>>),
      frame_instr(DW_CFA_restore_extended, 3, 0, <<>>),
      frame_instr(DW_CFA_restore_state, 0, 0, <<>>),
      frame_instr(DW_CFA_remember_state, 0, 0, <<>>),
      frame_instr(DW_CFA_nop, 0, 0, <<>>) }

FdePrograms == UNION {[1..n -> FdeInstrs] : n \in 0..MaxFdeLen}

\* The CIE initial-instruction lists.
CiePrograms ==
    { <<>>,
      << frame_instr(DW_CFA_def_cfa, 7, 8, <<>>) >>,
      << frame_instr(DW_CFA_def_cfa, 7, 8, <<>>),
         frame_instr(DW_CFA_offset, 6, 8, <<>>) >>,
      << frame_instr(DW_CFA_def_cfa_expression, 0, 1, BlockA) >>,
      << frame_instr(DW_CFA_restore, 6, 0, <<>>) >>,
      << frame_instr(DW_CFA_remember_state, 0, 0, <<>>),
         frame_instr(DW_CFA_same_value, 3, 0, <<>>),
         frame_instr(DW_CFA_advance_loc, 0, 2, <<>>),
         frame_instr(DW_CFA_restore_state, 0, 0, <<>>) >>,
      << frame_instr(DW_CFA_def_cfa, 7, 8, <<>>),
         frame_instr(DW_CFA_remember_state, 0, 0, <<>>),
         frame_instr(DW_CFA_offset, 6, 8, <<>>),
         frame_instr(DW_CFA_remember_state, 0, 0, <<>>),
         frame_instr(DW_CFA_same_value, 3, 0, <<>>),
         frame_instr(DW_CFA_restore_state, 0, 0, <<>>),
         frame_instr(DW_CFA_restore_state, 0, 0, <<>>) >> }

\* ------------------------------------------------------------------------
\* State of one Fde::decode call.
VARIABLES
    low_pc,                 \* get_low_pc()
    func_length,            \* get_func_length()
    cie_instrlist,          \* instrlist of the first interp call
    fde_instrlist,          \* instrlist of the second interp call
    pass,                   \* the interp call: "cie" (first) or "fde" (second)
    outcome,                \* "running", "returned", or "aborted" (failed assert)
    i_op,                   \* position of the next instruction in the list
    working,                \* the interval map of committed rows
    current_row_defs,       \* the rule table of the open row
    current_row_addr,       \* start address of the open row
    remembered_row_defs,    \* the stack of remember_state (top is the last)
    initial_instrs_results, \* optional<instrs_results>: <<>> or <<results>>
    snaps                   \* history: the state before each instruction
                            \* interpreted in the current pass, and the
                            \* state in which the second pass ended

\* The process the call runs in.
VARIABLES
    cerr,                   \* std::cerr: the lines written to it
    call,                   \* the Fde::decode call that is running: 1, or 2
                            \* when two calls run concurrently
    suspended               \* <<>>, or <<the locals of the other call>>


\* State of one frame_instrlist construction (frame.cpp:186-319).
VARIABLES
    instrs,                 \* the bytes from instrs on; the stream is the first
                            \* instrs_len of them
    instrs_len,             \* limit = instrs + instrs_len
    addrlen,                \* size of a DW_CFA_set_loc operand
    address_size,           \* the address size of the frame section the
                            \* stream belongs to
    data_alignment_factor,  \* cie.get_data_alignment_factor()
    use_host_byte_order,    \* the constructor's last argument
    host_is_big_endian,     \* srk31::host_is_big_endian() of the build
    pos,                    \* offset of the next byte to decode
    decoded_instrs,         \* the instructions pushed back so far
    construction,           \* "running", "returned", or "aborted" (failed
                            \* assert, or fault of a read outside the stream)
    bytes_read,             \* history: the offsets the decoder has read
    opcode_offsets,         \* history: offset of each decoded opcode byte
    operands_read           \* history: the operands read for each decoded
                            \* instruction, as the readers returned them

decoder_vars == <<instrs, instrs_len, addrlen, address_size, data_alignment_factor,
                  use_host_byte_order, host_is_big_endian, pos, decoded_instrs,
                  construction, bytes_read, opcode_offsets, operands_read>>

\* State of one read_uleb128 / read_sleb128 call (frame.cpp:65-106).
VARIABLES
    leb_encoding,           \* how the buffer was made: "uleb" or "sleb"
    leb_value,              \* the value whose encoding lies at leb_start
    leb_buf,                \* the bytes in memory
    leb_start,              \* *cur at the call
    leb_limit,              \* limit
    leb_call,               \* "none", "read_uleb128" or "read_sleb128"
    leb_result              \* <<>>, or <<[ok, cur, val]>> once the call ended

leb_vars == <<leb_encoding, leb_value, leb_buf, leb_start, leb_limit, leb_call,
              leb_result>>

\* State of one rewrite_loclist_in_terms_of_cfa call (frame.cpp:526-652).
VARIABLES
    l,                      \* the location list to rewrite
    fs,                     \* the frame section: its FDEs, each with the
                            \* rows its decode() returns
    containing_intervals,   \* the queried intervals, in address order
    i_int,                  \* index of the interval the for loop is at
    current,                \* optional<Fde>: <<>> or <<fde>>
    hipc,
    edges,                  \* the interval map of edge sets
    rewrite,                \* "running", "returned" or "aborted"
    rewritten               \* <<>>, or <<the list returned>>

rewriter_vars == <<l, fs, containing_intervals, i_int, current, hipc, edges,
                   rewrite, rewritten>>

\* The construction of the edge set of one row (frame.cpp:568-580, 632).
VARIABLES
    i_row,                  \* i_row->second: the (register, rule) pairs of
                            \* the row
    edge_set                \* <<>>, or <<[ok, set]>> once constructed

edge_vars == <<i_row, edge_set>>

\* State of one loc_expr::initialize_from_opcode_array call
\* (expr.hpp:141-182).
VARIABLES
    arr,                    \* the elements of [begin, end)
    iter,                   \* offset of iter from begin
    next_offset,
    m_expr,                 \* the Dwarf_Loc records pushed back so far
    initialization,         \* "running", "returned" or "aborted" (failed
                            \* assert, or fault of a read outside the array)
    elements_read           \* history: the offsets of the elements read

opcode_vars == <<arr, iter, next_offset, m_expr, initialization, elements_read>>

\* The variables of the interpreter.
decode_vars == <<low_pc, func_length, cie_instrlist, fde_instrlist, pass, outcome,
                 i_op, working, current_row_defs, current_row_addr,
                 remembered_row_defs, initial_instrs_results, snaps,
                 cerr, call, suspended>>

vars == <<decode_vars, decoder_vars, leb_vars, rewriter_vars, edge_vars,
          opcode_vars>>

instrlist == IF pass = "cie" THEN cie_instrlist ELSE fde_instrlist

\* The interpreter state the claims speak about.
Snap ==
    [defs |-> current_row_defs,
     rows |-> working,
     addr |-> current_row_addr,
     depth |-> Len(remembered_row_defs),
     stack |-> remembered_row_defs]

\* cerr << "Interpreting instrlist " << instrlist << endl, written by call c
\* in the given pass.
instrlist_line(c, p) == [call |-> c, pass |-> p, instr |-> 0]

\* cerr << "\tInterpreting instruction " << *i_op << endl
instruction_line == [call |-> call, pass |-> pass, instr |-> i_op]

Init ==
    /\ low_pc \in LowPcs
    /\ func_length \in FuncLengths
    /\ cie_instrlist \in CiePrograms
    /\ fde_instrlist = <<>>
    /\ pass = "cie"
    /\ outcome = "running"
    /\ i_op = 1
    /\ working = {}
    /\ current_row_defs = EmptyRow
    /\ current_row_addr = low_pc
    /\ remembered_row_defs = <<>>
    /\ initial_instrs_results = <<>>
    /\ snaps = <<>>
    /\ cerr = <<instrlist_line(1, "cie")>>
    /\ call = 1
    /\ suspended = <<>>

\* The loop `for (i_op = instrlist.begin(); i_op != instrlist.end(); ++i_op)`
\* is at an instruction whose opcode is one of codes.
At(codes) ==
    /\ outcome = "running"
    /\ i_op <= Len(instrlist)
    /\ OpCode(instrlist[i_op]) \in codes

\* ++i_op after a case that ran to its break.
NextInstr ==
    /\ i_op' = i_op + 1
    /\ snaps' = Append(snaps, Snap)
    /\ cerr' = Append(cerr, instruction_line)
    /\ UNCHANGED <<call, suspended>>
    /\ UNCHANGED <<low_pc, func_length, cie_instrlist, fde_instrlist, pass,
                   outcome, initial_instrs_results>>
    /\ UNCHANGED <<decoder_vars, leb_vars, rewriter_vars, edge_vars,
                   opcode_vars>>

\* A failed assert: the decode is aborted.  An assert of an instruction's
\* case fails after the instruction's line was written.
AssertFails ==
    /\ outcome' = "aborted"
    /\ cerr' = IF i_op <= Len(instrlist)
               THEN Append(cerr, instruction_line)
               ELSE cerr
    /\ UNCHANGED <<call, suspended>>
    /\ UNCHANGED <<low_pc, func_length, cie_instrlist, fde_instrlist, pass, i_op,
                   working, current_row_defs, current_row_addr,
                   remembered_row_defs, initial_instrs_results, snaps>>
    /\ UNCHANGED <<decoder_vars, leb_vars, rewriter_vars, edge_vars,
                   opcode_vars>>


\* ------------------------------------------------------------------------
\* Row creation (add_new_row).

\* assert(new_row_addr > current_row_addr)
NewRowAddrOk(new_row_addr, row_addr) == new_row_addr > row_addr

\* The body of add_new_row: the open row is added to the interval map over
\* [current_row_addr, new_row_addr).  current_row_addr is not assigned.
add_new_row(new_row_addr) ==
    IF NewRowAddrOk(new_row_addr, current_row_addr)
    THEN /\ working' = interval_map_add(working,
                           right_open(current_row_addr, new_row_addr),
                           current_row_defs_set(current_row_defs))
         /\ UNCHANGED <<current_row_defs, current_row_addr, remembered_row_defs>>
         /\ NextInstr
    ELSE AssertFails

\* case DW_CFA_set_loc
SetLoc ==
    /\ At({DW_CFA_set_loc})
    /\ add_new_row(instrlist[i_op].fp_offset_or_block_len)

\* case DW_CFA_advance_loc, DW_CFA_advance_loc1/2/4
AdvanceLoc ==
    /\ At({DW_CFA_advance_loc, DW_CFA_advance_loc1, DW_CFA_advance_loc2,
           DW_CFA_advance_loc4})
    /\ add_new_row(current_row_addr + instrlist[i_op].fp_offset_or_block_len)

\* ------------------------------------------------------------------------
\* CFA definition.

\* A case that only assigns current_row_defs.
SetDefs(m) ==
    /\ current_row_defs' = m
    /\ UNCHANGED <<working, current_row_addr, remembered_row_defs>>
    /\ NextInstr

\* case DW_CFA_def_cfa, DW_CFA_def_cfa_sf
DefCfa ==
    /\ At({DW_CFA_def_cfa, DW_CFA_def_cfa_sf})
    /\ SetDefs(MapSet(current_row_defs, DW_FRAME_CFA_COL3,
                      register_plus_offset_w(instrlist[i_op].fp_register,
                                             instrlist[i_op].fp_offset_or_block_len)))

\* assert(current_row_defs.find(DW_FRAME_CFA_COL3) != current_row_defs.end())
CfaDefined(m) == DW_FRAME_CFA_COL3 \in DOMAIN m

\* The pairs register_plus_offset_w() can refer to: the pair of a REGISTER
\* definition, an indeterminate pair for a definition of another kind.
PairOf(d) ==
    IF d.k = "REGISTER"
    THEN {<<d.reg, d.off>>}
    ELSE IndeterminateInts \X IndeterminateInts

\* case DW_CFA_def_cfa_register: ...register_plus_offset_w().first = fp_register
DefCfaRegister ==
    /\ At({DW_CFA_def_cfa_register})
    /\ IF CfaDefined(current_row_defs)
       THEN \E p \in PairOf(current_row_defs[DW_FRAME_CFA_COL3]) :
               SetDefs(MapSet(current_row_defs, DW_FRAME_CFA_COL3,
                       register_plus_offset_w(instrlist[i_op].fp_register, p[2])))
       ELSE AssertFails

\* DefCfaOffset without the assert: current_row_defs[DW_FRAME_CFA_COL3]
\* creates the definition.
DefCfaOffset_NoAssert ==
    /\ At({DW_CFA_def_cfa_offset, DW_CFA_def_cfa_offset_sf})
    /\ \E p \in (IF CfaDefined(current_row_defs)
                 THEN PairOf(current_row_defs[DW_FRAME_CFA_COL3])
                 ELSE IndeterminateInts \X IndeterminateInts) :
          SetDefs(MapSet(current_row_defs, DW_FRAME_CFA_COL3,
                  register_plus_offset_w(p[1],
                           instrlist[i_op].fp_offset_or_block_len)))

\* case DW_CFA_def_cfa_offset, DW_CFA_def_cfa_offset_sf:
\* ...register_plus_offset_w().second = fp_offset_or_block_len
DefCfaOffset ==
    /\ At({DW_CFA_def_cfa_offset, DW_CFA_def_cfa_offset_sf})
    /\ IF CfaDefined(current_row_defs)
       THEN \E p \in PairOf(current_row_defs[DW_FRAME_CFA_COL3]) :
               SetDefs(MapSet(current_row_defs, DW_FRAME_CFA_COL3,
                       register_plus_offset_w(p[1],
                                instrlist[i_op].fp_offset_or_block_len)))
       ELSE AssertFails

\* case DW_CFA_def_cfa_expression
DefCfaExpression ==
    /\ At({DW_CFA_def_cfa_expression})
    /\ SetDefs(MapSet(current_row_defs, DW_FRAME_CFA_COL3,
                      saved_at_expr_w(loc_expr(instrlist[i_op].fp_expr_block,
                                      instrlist[i_op].fp_offset_or_block_len))))

\* ------------------------------------------------------------------------
\* Register rules.

\* SetRegisterRule writing the rule into an empty table.
SetRegisterRule_ClearsOthers(d) ==
    SetDefs(MapSet(EmptyRow, instrlist[i_op].fp_register, d))

\* current_row_defs[i_op->fp_register] = d
SetRegisterRule(d) ==
    SetDefs(MapSet(current_row_defs, instrlist[i_op].fp_register, d))

\* case DW_CFA_undefined
Undefined ==
    /\ At({DW_CFA_undefined})
    /\ SetRegisterRule(undefined_w)

\* case DW_CFA_same_value
SameValue ==
    /\ At({DW_CFA_same_value})
    /\ SetRegisterRule(same_value_w)

\* case DW_CFA_offset, DW_CFA_offset_extended, DW_CFA_offset_extended_sf
Offset ==
    /\ At({DW_CFA_offset, DW_CFA_offset_extended, DW_CFA_offset_extended_sf})
    /\ SetRegisterRule(saved_at_offset_from_cfa_w(instrlist[i_op].fp_offset_or_block_len))

\* case DW_CFA_val_offset, DW_CFA_val_offset_sf
ValOffset ==
    /\ At({DW_CFA_val_offset, DW_CFA_val_offset_sf})
    /\ SetRegisterRule(val_is_offset_from_cfa_w(instrlist[i_op].fp_offset_or_block_len))

\* case DW_CFA_register
Register ==
    /\ At({DW_CFA_register})
    /\ SetRegisterRule(register_plus_offset_w(instrlist[i_op].fp_offset_or_block_len, 0))

\* case DW_CFA_expression
Expression ==
    /\ At({DW_CFA_expression})
    /\ SetRegisterRule(saved_at_expr_w(loc_expr(instrlist[i_op].fp_expr_block,
                                       instrlist[i_op].fp_offset_or_block_len)))

\* case DW_CFA_val_expression
ValExpression ==
    /\ At({DW_CFA_val_expression})
    /\ SetRegisterRule(val_of_expr_w(loc_expr(instrlist[i_op].fp_expr_block,
                                     instrlist[i_op].fp_offset_or_block_len)))

\* ------------------------------------------------------------------------
\* Restore.

\* The definitions of register r in a set of (register, definition) pairs.
DefsOf(s, r) == {p[2] : p \in {q \in s : q[1] = r}}

\* PreviousDefs without the look into the unfinished row.
PreviousDefs_RowsOnly(initial_results, r, row_addr) ==
    IF DefsOf(RowAt(initial_results.rows, row_addr), r) # {}
    THEN DefsOf(RowAt(initial_results.rows, row_addr), r)
    ELSE {undefined_w}

\* opt_previous_def != nullptr
InitialHas(initial_results, r, row_addr) ==
    \/ r \in DOMAIN initial_results.unfinished_row
    \/ DefsOf(RowAt(initial_results.rows, row_addr), r) # {}

\* The definition restore(r) assigns: the one of the initial results'
\* unfinished row, else one of the initial results' rows at the current row
\* address (map<int, register_def>(inner_set.begin(), inner_set.end()) keeps
\* one definition per register), else UNDEFINED.
PreviousDefs(initial_results, r, row_addr) ==
    IF r \in DOMAIN initial_results.unfinished_row
    THEN {initial_results.unfinished_row[r]}
    ELSE IF DefsOf(RowAt(initial_results.rows, row_addr), r) # {}
         THEN DefsOf(RowAt(initial_results.rows, row_addr), r)
         ELSE {undefined_w}

\* What *initial_instrs_results refers to when the optional is empty: the
\* source does not determine it.
IndeterminateResults ==
    { [rows |-> {}, unfinished_row |-> EmptyRow],
      [rows |-> {}, unfinished_row |-> [r \in {6} |-> register_plus_offset_w(99, 99)]] }

\* Restore with assert(opt_previous_def) in place of the UNDEFINED default.
Restore_AssertsFound ==
    /\ At({DW_CFA_restore, DW_CFA_restore_extended})
    /\ initial_instrs_results # <<>>
    /\ IF InitialHas(initial_instrs_results[1], instrlist[i_op].fp_register,
                     current_row_addr)
       THEN \E d \in PreviousDefs(initial_instrs_results[1],
                                  instrlist[i_op].fp_register, current_row_addr) :
               SetRegisterRule(d)
       ELSE AssertFails

\* case DW_CFA_restore, DW_CFA_restore_extended
Restore ==
    /\ At({DW_CFA_restore, DW_CFA_restore_extended})
    /\ IF initial_instrs_results # <<>>
       THEN \E d \in PreviousDefs(initial_instrs_results[1],
                                  instrlist[i_op].fp_register, current_row_addr) :
               SetRegisterRule(d)
       ELSE \/ AssertFails
            \/ \E res \in IndeterminateResults :
                 \E d \in PreviousDefs(res, instrlist[i_op].fp_register,
                                       current_row_addr) :
                    SetRegisterRule(d)

\* ------------------------------------------------------------------------
\* Row state.

\* assert(remembered_row_defs.size() > 0)
StackNonEmpty(stack) == Len(stack) > 0

\* A top() that returns the table remembered first.
Top_Oldest(stack) == stack[1]

\* remembered_row_defs.top()
Top(stack) == stack[Len(stack)]

\* A pop() that leaves the top on the stack.
Pop_KeepsTop(stack) == stack

\* remembered_row_defs.pop()
Pop(stack) == SubSeq(stack, 1, Len(stack) - 1)

\* remembered_row_defs.push(m)
Push(stack, m) == Append(stack, m)

\* RestoreState without the assert: an empty stack leaves the table as it is.
RestoreState_NoAssert ==
    /\ At({DW_CFA_restore_state})
    /\ current_row_defs' = IF StackNonEmpty(remembered_row_defs)
                           THEN Top(remembered_row_defs)
                           ELSE current_row_defs
    /\ remembered_row_defs' = IF StackNonEmpty(remembered_row_defs)
                              THEN Pop(remembered_row_defs)
                              ELSE remembered_row_defs
    /\ UNCHANGED <<working, current_row_addr>>
    /\ NextInstr

\* case DW_CFA_restore_state
RestoreState ==
    /\ At({DW_CFA_restore_state})
    /\ IF StackNonEmpty(remembered_row_defs)
       THEN /\ current_row_defs' = Top(remembered_row_defs)
            /\ remembered_row_defs' = Pop(remembered_row_defs)
            /\ UNCHANGED <<working, current_row_addr>>
            /\ NextInstr
       ELSE AssertFails

\* case DW_CFA_remember_state
RememberState ==
    /\ At({DW_CFA_remember_state})
    /\ remembered_row_defs' = Push(remembered_row_defs, current_row_defs)
    /\ UNCHANGED <<working, current_row_defs, current_row_addr>>
    /\ NextInstr

\* case DW_CFA_nop
Nop ==
    /\ At({DW_CFA_nop})
    /\ UNCHANGED <<working, current_row_defs, current_row_addr, remembered_row_defs>>
    /\ NextInstr

\* ------------------------------------------------------------------------
\* Fde::decode around the two interp calls.

\* The first interp call has returned: the initial results are saved,
\* current_row_defs is cleared, and the second call starts on the FDE's
\* instruction list with current_row_defs set from the unfinished row and a
\* new, empty stack.
\* The FDE instruction lists drawn from: all lists up to MaxFdeLen for one
\* call, the lists of one instruction for each of two concurrent calls.
FdeChoices ==
    IF suspended = <<>> THEN FdePrograms ELSE [1..1 -> FdeInstrs]

InitialInstrsDone ==
    /\ pass = "cie"
    /\ outcome = "running"
    /\ i_op > Len(cie_instrlist)
    /\ initial_instrs_results' =
          << [rows |-> working, unfinished_row |-> current_row_defs] >>
    /\ current_row_defs' = initial_instrs_results'[1].unfinished_row
    /\ remembered_row_defs' = <<>>
    /\ fde_instrlist' \in FdeChoices
    /\ pass' = "fde"
    /\ i_op' = 1
    /\ snaps' = <<>>
    /\ cerr' = Append(cerr, instrlist_line(call, "fde"))
    /\ UNCHANGED <<call, suspended>>
    /\ UNCHANGED <<low_pc, func_length, cie_instrlist, outcome, working,
                   current_row_addr>>
    /\ UNCHANGED <<decoder_vars, leb_vars, rewriter_vars, edge_vars,
                   opcode_vars>>

\* assert(get_low_pc() + get_func_length() > current_row_addr)
FinalRangeOk(high_pc, row_addr) == high_pc > row_addr

\* The second interp call has returned: the unfinished row, if it has any
\* definition, is added over [current_row_addr, low_pc + func_length), and
\* the interval map is returned.
FinalCommit ==
    /\ pass = "fde"
    /\ outcome = "running"
    /\ i_op > Len(fde_instrlist)
    /\ IF current_row_defs # EmptyRow
       THEN IF FinalRangeOk(low_pc + func_length, current_row_addr)
            THEN /\ working' = interval_map_add(working,
                                  right_open(current_row_addr, low_pc + func_length),
                                  current_row_defs_set(current_row_defs))
                 /\ outcome' = "returned"
                 /\ snaps' = Append(snaps, Snap)
                 /\ UNCHANGED <<cerr, call, suspended>>
                 /\ UNCHANGED <<low_pc, func_length, cie_instrlist, fde_instrlist,
                                pass, i_op, current_row_defs, current_row_addr,
                                remembered_row_defs, initial_instrs_results>>
                 /\ UNCHANGED <<decoder_vars, leb_vars, rewriter_vars, edge_vars,
                   opcode_vars>>
            ELSE AssertFails
       ELSE /\ outcome' = "returned"
            /\ snaps' = Append(snaps, Snap)
            /\ UNCHANGED <<cerr, call, suspended>>
            /\ UNCHANGED <<low_pc, func_length, cie_instrlist, fde_instrlist,
                           pass, i_op, working, current_row_defs, current_row_addr,
                           remembered_row_defs, initial_instrs_results>>
            /\ UNCHANGED <<decoder_vars, leb_vars, rewriter_vars, edge_vars,
                   opcode_vars>>

Next ==
    \/ SetLoc
    \/ AdvanceLoc
    \/ DefCfa
    \/ DefCfaRegister
    \/ DefCfaOffset
    \/ DefCfaExpression
    \/ Undefined
    \/ SameValue
    \/ Offset
    \/ ValOffset
    \/ Register
    \/ Expression
    \/ ValExpression
    \/ Restore
    \/ RestoreState
    \/ RememberState
    \/ Nop
    \/ InitialInstrsDone
    \/ FinalCommit

\* No frame_instrlist is under construction.
DecoderIdle ==
    /\ instrs = <<>>
    /\ instrs_len = 0
    /\ addrlen = 8
    /\ address_size = 8
    /\ data_alignment_factor = 1
    /\ use_host_byte_order = TRUE
    /\ host_is_big_endian = FALSE
    /\ pos = 0
    /\ decoded_instrs = <<>>
    /\ construction = "returned"
    /\ bytes_read = {}
    /\ opcode_offsets = <<>>
    /\ operands_read = <<>>

\* No LEB128 reader is called.
LebIdle ==
    /\ leb_encoding = "uleb"
    /\ leb_value = {}
    /\ leb_buf = <<>>
    /\ leb_start = 0
    /\ leb_limit = 0
    /\ leb_call = "none"
    /\ leb_result = <<>>

\* No location list is being rewritten.
RewriterIdle ==
    /\ l = <<>>
    /\ fs = {}
    /\ containing_intervals = <<>>
    /\ i_int = 1
    /\ current = <<>>
    /\ hipc = 0
    /\ edges = {}
    /\ rewrite = "returned"
    /\ rewritten = <<>>

\* No edge set is being constructed.
EdgeIdle ==
    /\ i_row = {}
    /\ edge_set = <<>>

\* No location expression is being initialised from an opcode array.
OpcodeArrayIdle ==
    /\ arr = <<>>
    /\ iter = 0
    /\ next_offset = 0
    /\ m_expr = <<>>
    /\ initialization = "returned"
    /\ elements_read = {}

\* Fde::decode on instruction lists already decoded.
SpecInit == Init /\ DecoderIdle /\ LebIdle /\ RewriterIdle /\ EdgeIdle /\ OpcodeArrayIdle

Spec == SpecInit /\ [][Next]_vars


\* ------------------------------------------------------------------------
\* Vocabulary of the properties.

\* The number of instructions of the current list interpreted so far.
Interpreted == i_op - 1

\* The interpreter state before instruction k of the current list
\* (k = Interpreted + 1: the state after the last instruction interpreted).
StateAt(k) == IF k <= Len(snaps) THEN snaps[k] ELSE Snap

HighPc == low_pc + func_length

CfaRow(r, o) == {<<DW_FRAME_CFA_COL3, register_plus_offset_w(r, o)>>}

RowCreating ==
    {DW_CFA_set_loc, DW_CFA_advance_loc, DW_CFA_advance_loc1,
     DW_CFA_advance_loc2, DW_CFA_advance_loc4}

RestoreOps == {DW_CFA_restore, DW_CFA_restore_extended}

DefCfaMutators ==
    {DW_CFA_def_cfa_register, DW_CFA_def_cfa_offset, DW_CFA_def_cfa_offset_sf}

\* The start address of the row that is open before instruction k of list,
\* when the row open before its first instruction starts at first: each
\* row-creating instruction opens a row at its target address.
RECURSIVE OpenRowStart(_, _, _)
OpenRowStart(list, k, first) ==
    IF k = 1
    THEN first
    ELSE IF OpCode(list[k - 1]) = DW_CFA_set_loc
         THEN list[k - 1].fp_offset_or_block_len
         ELSE IF OpCode(list[k - 1]) \in RowCreating
              THEN OpenRowStart(list, k - 1, first)
                      + list[k - 1].fp_offset_or_block_len
              ELSE OpenRowStart(list, k - 1, first)

\* The start of the row open when the current pass began.
FirstRowStart ==
    IF pass = "cie"
    THEN low_pc
    ELSE OpenRowStart(cie_instrlist, Len(cie_instrlist) + 1, low_pc)

\* The number of instructions with opcode code among the first n of list.
RECURSIVE CountOp(_, _, _)
CountOp(list, n, code) ==
    IF n = 0
    THEN 0
    ELSE CountOp(list, n - 1, code) + (IF OpCode(list[n]) = code THEN 1 ELSE 0)

\* The first n instructions of list hold more restore_state than
\* remember_state.
Underflows(list, n) ==
    CountOp(list, n, DW_CFA_restore_state) > CountOp(list, n, DW_CFA_remember_state)

\* ------------------------------------------------------------------------
\* C1: when Fde::decode returns, the addresses its row table covers are
\* exactly those of [low_pc, low_pc + func_length).
C1_RowsPartitionFunction ==
    outcome = "returned" => Covered(working) = right_open(low_pc, HighPc)

\* C2: with initial instructions def_cfa(7, 8) and FDE instructions
\* advance_loc(4), def_cfa_offset(16), Fde::decode returns the row
\* [low_pc, low_pc + 4) with the one rule CFA = reg7 + 8 and the row
\* [low_pc + 4, low_pc + func_length) with the one rule CFA = reg7 + 16.
C2_ExampleRows ==
    ( /\ outcome # "running"
      /\ pass = "fde"
      /\ cie_instrlist = << frame_instr(DW_CFA_def_cfa, 7, 8, <<>>) >>
      /\ fde_instrlist = << frame_instr(DW_CFA_advance_loc, 0, 4, <<>>),
                            frame_instr(DW_CFA_def_cfa_offset, 0, 16, <<>>) >> )
    => /\ outcome = "returned"
       /\ working = interval_map_add(
                       interval_map_add({}, right_open(low_pc, low_pc + 4),
                                        CfaRow(7, 8)),
                       right_open(low_pc + 4, HighPc), CfaRow(7, 16))

\* C3: in the row table Fde::decode returns, no address has two definitions
\* of the same register (the CFA column included).
C3_RowsAreFunctions ==
    outcome = "returned" =>
        \A a \in Covered(working) :
            \A p, q \in RowAt(working, a) : p[1] = q[1] => p = q

\* C4: every row-creating instruction that was interpreted without failing
\* had a target address strictly greater than the start of the row opened by
\* the row-creating instruction before it (low_pc if there was none).
C4_RowStartsIncrease ==
    \A k \in 1..Interpreted :
        OpCode(instrlist[k]) \in RowCreating =>
            OpenRowStart(instrlist, k + 1, FirstRowStart)
                > OpenRowStart(instrlist, k, FirstRowStart)

\* The rules the initial results hold for register r: the rule of the
\* unfinished row, and without one, the rules of the rows at address addr.
InitialRules(r, addr) ==
    IF r \in DOMAIN initial_instrs_results[1].unfinished_row
    THEN {initial_instrs_results[1].unfinished_row[r]}
    ELSE DefsOf(RowAt(initial_instrs_results[1].rows, addr), r)

AbsentFromInitial(r, addr) ==
    /\ r \notin DOMAIN initial_instrs_results[1].unfinished_row
    /\ DefsOf(RowAt(initial_instrs_results[1].rows, addr), r) = {}

\* C6: restore(r) / restore_extended(r) in the FDE instructions, for a
\* register r without a rule in the initial results, never aborts the decode
\* and sets r's rule to UNDEFINED, changing nothing else.
C6_RestoreOfAbsentIsUndefined ==
    pass = "fde" =>
        /\ \A k \in 1..Interpreted :
              ( /\ OpCode(fde_instrlist[k]) \in RestoreOps
                /\ AbsentFromInitial(fde_instrlist[k].fp_register, StateAt(k).addr) )
              => /\ StateAt(k + 1).defs =
                       MapSet(StateAt(k).defs, fde_instrlist[k].fp_register,
                              undefined_w)
                 /\ StateAt(k + 1).rows = StateAt(k).rows
                 /\ StateAt(k + 1).addr = StateAt(k).addr
                 /\ StateAt(k + 1).depth = StateAt(k).depth
        /\ ( /\ outcome = "aborted"
             /\ i_op <= Len(fde_instrlist) )
           => OpCode(fde_instrlist[i_op]) \notin RestoreOps

\* The case of C6: restore_extended(3) was interpreted where the initial
\* results have no rule for register 3, and another instruction after it.
C6_Witness ==
    /\ pass = "fde"
    /\ Interpreted >= 2
    /\ OpCode(fde_instrlist[1]) = DW_CFA_restore_extended
    /\ AbsentFromInitial(fde_instrlist[1].fp_register, StateAt(1).addr)
    /\ DW_FRAME_CFA_COL3 \in DOMAIN StateAt(1).defs
    /\ StateAt(2).defs[fde_instrlist[1].fp_register] = undefined_w

\* C7: remember_state directly followed by restore_state leaves the rule
\* table, the committed rows, the row address and the depth of the stack as
\* they were before the pair.
C7_RememberRestoreIsNoOp ==
    \A k \in 1..Interpreted :
        ( /\ k + 1 <= Interpreted
          /\ OpCode(instrlist[k]) = DW_CFA_remember_state
          /\ OpCode(instrlist[k + 1]) = DW_CFA_restore_state )
        => StateAt(k + 2) = StateAt(k)

\* The case of C7: the pair was interpreted on a rule table that is not empty.
C7_Witness ==
    /\ Interpreted >= 2
    /\ OpCode(instrlist[1]) = DW_CFA_remember_state
    /\ OpCode(instrlist[2]) = DW_CFA_restore_state
    /\ StateAt(1).defs # EmptyRow
    /\ StateAt(2).depth = 1

\* C8: a restore_state at a position where the list holds more restore_state
\* than remember_state is never interpreted past: the decode aborts there and
\* returns nothing.
C8_RestoreStateUnderflowFails ==
    /\ \A n \in 1..Len(instrlist) :
          Underflows(instrlist, n) => Interpreted < n
    /\ pass = "fde" =>
          \A n \in 1..Len(cie_instrlist) : ~Underflows(cie_instrlist, n)
    /\ outcome = "returned" =>
          \A n \in 1..Len(fde_instrlist) : ~Underflows(fde_instrlist, n)

\* The case of C8: the decode aborted at a restore_state with an empty stack
\* and a rule table that is not empty.
C8_Witness ==
    /\ outcome = "aborted"
    /\ i_op <= Len(instrlist)
    /\ OpCode(instrlist[i_op]) = DW_CFA_restore_state
    /\ remembered_row_defs = <<>>
    /\ current_row_defs # EmptyRow

\* C9: def_cfa_register, def_cfa_offset and def_cfa_offset_sf are never
\* interpreted past when the rule table has no CFA definition: the decode
\* aborts there, and the table still has no CFA definition.
C9_DefCfaMutatorsNeedCfa ==
    \A k \in 1..Interpreted :
        OpCode(instrlist[k]) \in DefCfaMutators => CfaDefined(StateAt(k).defs)

\* The case of C9: the decode aborted at a def_cfa_offset with no CFA
\* definition in the table.
C9_Witness ==
    /\ outcome = "aborted"
    /\ i_op <= Len(instrlist)
    /\ OpCode(instrlist[i_op]) = DW_CFA_def_cfa_offset
    /\ ~CfaDefined(current_row_defs)

\* C10: def_cfa_register, def_cfa_offset and def_cfa_offset_sf are never
\* interpreted past when the CFA's definition is not of kind REGISTER.
C10_DefCfaMutatorsNeedRegisterKind ==
    \A k \in 1..Interpreted :
        ( /\ OpCode(instrlist[k]) \in DefCfaMutators
          /\ CfaDefined(StateAt(k).defs) )
        => StateAt(k).defs[DW_FRAME_CFA_COL3].k = "REGISTER"

\* C11: when Fde::decode returns, the last thing it did was commit the open
\* row over [start of the open row, low_pc + func_length), and that range is
\* not empty: the row-creating instructions have not advanced the row start
\* to low_pc + func_length or beyond.
C11_FinalCommitRange ==
    outcome = "returned" =>
        LET start == OpenRowStart(fde_instrlist, Len(fde_instrlist) + 1,
                                  FirstRowStart)
            last == snaps[Len(snaps)]
        IN /\ start < HighPc
           /\ working = interval_map_add(last.rows, right_open(start, HighPc),
                                         current_row_defs_set(last.defs))


\* ========================================================================
\* Primitive readers (frame.cpp:65-183).
\*
\* A Dwarf_Unsigned / Dwarf_Signed value is kept as the set of the positions
\* (0..63) of its one bits; a buffer is a sequence of bytes, and a cursor is
\* the offset (from 0) of the next byte.

RECURSIVE Pow2(_)
Pow2(n) == IF n = 0 THEN 1 ELSE 2 * Pow2(n - 1)

RECURSIVE SumPow2(_)
SumPow2(S) ==
    IF S = {}
    THEN 0
    ELSE LET p == CHOOSE x \in S : TRUE IN Pow2(p) + SumPow2(S \ {p})

\* The number a 64-bit pattern stands for, read as a two's-complement number.
AsSigned(bits) ==
    IF 63 \in bits THEN -1 - SumPow2((0..62) \ bits) ELSE SumPow2(bits)

\* The bits of a number 0..255.
BitsOfByte(b) == {p \in 0..7 : (b \div Pow2(p)) % 2 = 1}

\* (**cur) & ~0x80: an int with the low seven bits of the byte.
Low7(b) == BitsOfByte(b) \ {7}

\* The results of `x << s` on a 32-bit int x >= 0 with the one bits x: the
\* bits shifted out of the int are lost; a shift count of 32 or more is
\* undefined, and gives the shift by the count's low five bits or 0.
IntShiftLeft(x, s) ==
    IF s < 32
    THEN { {p + s : p \in {q \in x : q + s <= 31}} }
    ELSE { {p + (s % 32) : p \in {q \in x : q + (s % 32) <= 31}}, {} }

\* The conversion of a 32-bit int to Dwarf_Unsigned / Dwarf_Signed.
SignExtend32(x) == IF 31 \in x THEN x \cup (32..63) ELSE x

\* working |= ((**cur) & ~0x80) << (7 * n7bits)
leb_accumulate(acc, byte, n7bits) ==
    {acc \cup SignExtend32(v) : v \in IntShiftLeft(Low7(byte), 7 * n7bits)}

\* -(1 << nbits_read), an int, as converted to Dwarf_Signed.
MinusOneShifted(nbits_read) ==
    { IF v = {} THEN {} ELSE (CHOOSE p \in v : TRUE)..63 :
         v \in IntShiftLeft({0}, nbits_read) }

\* The sign extension of read_sleb128 (frame.cpp:98-103), on the last byte
\* read.
sleb_sign_extend(acc, nbits_read, byte_read) ==
    IF nbits_read < 64 /\ byte_read >= 128
    THEN {acc \cup m : m \in MinusOneShifted(nbits_read)}
    ELSE {acc}

\* The loop of the readers without assert(*cur < limit).
RECURSIVE leb_loop_NoAssert(_, _, _, _, _)
leb_loop_NoAssert(buf, start, cur, limit, acc) ==
    IF buf[cur + 1] >= 128
    THEN UNION {leb_loop_NoAssert(buf, start, cur + 1, limit, w) :
                   w \in leb_accumulate(acc, buf[cur + 1], cur - start)}
    ELSE {[ok |-> TRUE, cur |-> cur + 1, val |-> w, byte_read |-> buf[cur + 1]] :
             w \in leb_accumulate(acc, buf[cur + 1], cur - start)}

\* The loop of read_uleb128 / read_sleb128 from cursor cur on, with the
\* outcomes [ok, cur, val, byte_read]: ok is FALSE when assert(*cur < limit)
\* fails.
RECURSIVE leb_loop(_, _, _, _, _)
leb_loop(buf, start, cur, limit, acc) ==
    IF ~(cur < limit)
    THEN {[ok |-> FALSE, cur |-> cur, val |-> acc, byte_read |-> 0]}
    ELSE IF buf[cur + 1] >= 128
         THEN UNION {leb_loop(buf, start, cur + 1, limit, w) :
                        w \in leb_accumulate(acc, buf[cur + 1], cur - start)}
         ELSE {[ok |-> TRUE, cur |-> cur + 1, val |-> w, byte_read |-> buf[cur + 1]] :
                  w \in leb_accumulate(acc, buf[cur + 1], cur - start)}

\* read_uleb128(&cur, limit): the outcomes [ok, cur, val].
read_uleb128(buf, cur, limit) ==
    {[ok |-> r.ok, cur |-> r.cur, val |-> r.val] :
        r \in leb_loop(buf, cur, cur, limit, {})}

\* read_sleb128(&cur, limit): the outcomes [ok, cur, val].
read_sleb128(buf, cur, limit) ==
    UNION {{[ok |-> r.ok, cur |-> r.cur, val |-> v] :
               v \in IF r.ok
                     THEN sleb_sign_extend(r.val, 7 * (r.cur - cur), r.byte_read)
                     ELSE {r.val}} :
           r \in leb_loop(buf, cur, cur, limit, {})}

\* The value of the n bytes of buf from offset `from` on, least significant
\* byte first (read_8byte_le, read_4byte_le, read_2byte_le).
bytes_le(buf, from, n) ==
    UNION {{8 * i + p : p \in BitsOfByte(buf[from + 1 + i])} : i \in 0..(n - 1)}

\* The same, most significant byte first (read_8byte_be, read_4byte_be,
\* read_2byte_be).
bytes_be(buf, from, n) ==
    UNION {{8 * (n - 1 - i) + p : p \in BitsOfByte(buf[from + 1 + i])} :
              i \in 0..(n - 1)}

\* read_Nbyte_le / read_Nbyte_be (&cur, limit): `*cur += N; assert(*cur <=
\* limit);` and then the bytes are read.
read_bytes(buf, cur, limit, n, big_endian) ==
    [ok |-> cur + n <= limit,
     cur |-> cur + n,
     val |-> IF cur + n <= limit
             THEN IF big_endian THEN bytes_be(buf, cur, n) ELSE bytes_le(buf, cur, n)
             ELSE {}]

\* read_addr(addrlen, &cur, limit, use_host_byte_order), on a host that is big
\* endian or not: the outcomes [ok, cur, val].
read_addr(len, buf, cur, limit, use_host, host_big) ==
    IF len \in {4, 8}
    THEN {read_bytes(buf, cur, limit, len, (~host_big) # use_host)}
    ELSE {[ok |-> FALSE, cur |-> cur, val |-> {}]}

\* Arithmetic of Dwarf_Unsigned, modulo 2^64.
ShiftLeft64(x, k) == {p + k : p \in {q \in x : q + k <= 63}}

RECURSIVE Add64From(_, _, _, _)
Add64From(a, b, p, carry) ==
    IF p > 63
    THEN {}
    ELSE LET n == (IF p \in a THEN 1 ELSE 0) + (IF p \in b THEN 1 ELSE 0) + carry
         IN (IF n % 2 = 1 THEN {p} ELSE {}) \cup Add64From(a, b, p + 1, n \div 2)

Add64(a, b) == Add64From(a, b, 0, 0)

Neg64(a) == Add64((0..63) \ a, {0})

RECURSIVE MulNat64(_, _)
MulNat64(n, x) ==
    IF n = 0
    THEN {}
    ELSE Add64(IF n % 2 = 1 THEN x ELSE {}, ShiftLeft64(MulNat64(n \div 2, x), 1))

\* factor * x, for a Dwarf_Signed factor given as a number.
Times64(factor, x) ==
    IF factor < 0 THEN Neg64(MulNat64(-factor, x)) ELSE MulNat64(factor, x)


\* ========================================================================
\* Calls of read_uleb128 and read_sleb128 on encoded values.

\* The values have at most MaxSetBits one bits, or at most MaxSetBits zero
\* bits, among these positions.
MaxSetBits == 2

LebTestBits == {0, 3, 6, 7, 13, 27, 28, 31, 32, 35, 62, 63}

LebValues ==
    LET few == {S \in SUBSET LebTestBits : Cardinality(S) <= MaxSetBits}
    IN few \cup {(0..63) \ S : S \in few}

\* The largest element of a non-empty set of numbers.
MaxOf(S) == CHOOSE x \in S : \A y \in S : y <= x

\* Byte i (from 1) of an encoding in n bytes of the value with the one bits
\* `bits`: seven bits of the value, and the continuation bit in all bytes but
\* the last.
leb_byte(bits, i, n) ==
    SumPow2({p \in 0..6 : 7 * (i - 1) + p \in bits}) + (IF i < n THEN 128 ELSE 0)

\* The ULEB128 encoding of an unsigned 64-bit value: the shortest one.
encode_uleb128(v) ==
    LET n == IF v = {} THEN 1 ELSE (MaxOf(v) \div 7) + 1
    IN [i \in 1..n |-> leb_byte(v, i, n)]

\* The SLEB128 encoding of a signed 64-bit value: the shortest one from which
\* sign extension of the last byte's bit 6 gives the value back.
encode_sleb128(v) ==
    LET sign == 63 \in v
        extended == IF sign THEN v \cup (64..69) ELSE v
        fits(n) == \A p \in (7 * n - 1)..63 : (p \in v) = sign
        n == CHOOSE k \in 1..10 : fits(k) /\ \A m \in 1..(k - 1) : ~fits(m)
    IN [i \in 1..n |-> leb_byte(extended, i, n)]

LebEncoded(enc, v) == IF enc = "uleb" THEN encode_uleb128(v) ELSE encode_sleb128(v)

\* A value is encoded after leb_start bytes of other data; the limit lies
\* anywhere from the start of the encoding to its end.
LebInit ==
    /\ leb_encoding \in {"uleb", "sleb"}
    /\ leb_value \in LebValues
    /\ leb_start \in {0, 1}
    /\ leb_buf = [i \in 1..leb_start |-> 255] \o LebEncoded(leb_encoding, leb_value)
    /\ leb_limit \in leb_start..Len(leb_buf)
    /\ leb_call = "none"
    /\ leb_result = <<>>

\* A call of read_uleb128(&cur, limit) with *cur = leb_start.
ReadUleb128 ==
    /\ leb_call = "none"
    /\ leb_call' = "read_uleb128"
    /\ \E r \in read_uleb128(leb_buf, leb_start, leb_limit) : leb_result' = <<r>>
    /\ UNCHANGED <<leb_encoding, leb_value, leb_buf, leb_start, leb_limit>>
    /\ UNCHANGED <<decode_vars, decoder_vars, rewriter_vars, edge_vars,
                   opcode_vars>>

\* A call of read_sleb128(&cur, limit) with *cur = leb_start.
ReadSleb128 ==
    /\ leb_call = "none"
    /\ leb_call' = "read_sleb128"
    /\ \E r \in read_sleb128(leb_buf, leb_start, leb_limit) : leb_result' = <<r>>
    /\ UNCHANGED <<leb_encoding, leb_value, leb_buf, leb_start, leb_limit>>
    /\ UNCHANGED <<decode_vars, decoder_vars, rewriter_vars, edge_vars,
                   opcode_vars>>

LebNext ==
    \/ ReadUleb128
    \/ ReadSleb128

\* No Fde::decode call is running.
DecodeIdle ==
    /\ low_pc = 0
    /\ func_length = 0
    /\ cie_instrlist = <<>>
    /\ fde_instrlist = <<>>
    /\ pass = "fde"
    /\ outcome = "returned"
    /\ i_op = 1
    /\ working = {}
    /\ current_row_defs = EmptyRow
    /\ current_row_addr = 0
    /\ remembered_row_defs = <<>>
    /\ initial_instrs_results = <<>>
    /\ snaps = <<>>
    /\ cerr = <<>>
    /\ call = 1
    /\ suspended = <<>>

SpecLebInit ==
    LebInit /\ DecodeIdle /\ DecoderIdle /\ RewriterIdle /\ EdgeIdle /\ OpcodeArrayIdle

SpecLeb == SpecLebInit /\ [][LebNext]_vars

\* The whole encoding lies before the limit.
LebComplete == leb_limit = Len(leb_buf)

\* The call has ended, and the bytes it read.
LebEnded == leb_call # "none"

LebBytesRead == leb_start..(leb_result[1].cur - 1)

\* C15: read_uleb128 on the canonical ULEB128 encoding of an unsigned 64-bit
\* value returns that value and leaves the cursor right after the encoding.
C15_UlebRoundTrip ==
    (leb_call = "read_uleb128" /\ leb_encoding = "uleb" /\ LebComplete) =>
        /\ leb_result[1].ok
        /\ leb_result[1].val = leb_value
        /\ leb_result[1].cur = Len(leb_buf)

\* C16: read_sleb128 on the SLEB128 encoding of a signed 64-bit value returns
\* that value, negative values included.
C16_SlebRoundTrip ==
    (leb_call = "read_sleb128" /\ leb_encoding = "sleb" /\ LebComplete) =>
        /\ leb_result[1].ok
        /\ leb_result[1].val = leb_value
        /\ leb_result[1].cur = Len(leb_buf)

\* C17: both readers fail on a truncated value, that is when every byte
\* from the cursor up to the limit has its continuation bit set or there is
\* no byte before the limit: no value is returned, and no byte at or beyond
\* the limit is read.
C17_TruncatedLebFails ==
    (LebEnded /\ ~LebComplete) =>
        /\ ~leb_result[1].ok
        /\ \A b \in LebBytesRead : b < leb_limit

\* Both readers have failed on a truncated value, one with no byte at all
\* and one with some bytes.
C17_Witness ==
    /\ leb_call = "read_sleb128"
    /\ ~LebComplete
    /\ leb_limit > leb_start
    /\ ~leb_result[1].ok
    /\ LebBytesRead = leb_start..(leb_limit - 1)


\* ========================================================================
\* frame_instrlist::frame_instrlist: decoding a byte stream into instructions
\* (frame.cpp:186-319).  fp_offset_or_block_len is a Dwarf_Unsigned, kept as
\* the set of its one bits; fp_expr_block is <<>> (null) or <<offset of the
\* first byte of the block>>.

\* A stream is made of at most MaxChunks of these encoded instructions, some
\* of them cut short or with an opcode the decoder does not know.
MaxChunks == 2

Chunks ==
    { << 0 >>,                          \* nop
      << 65 >>,                         \* advance_loc 1
      << 134, 2 >>,                     \* offset r6, 2
      << 134 >>,                        \* offset r6, cut short
      << 198 >>,                        \* restore r6
      << 1, 16, 0, 0, 0, 0, 0, 0, 0 >>, \* set_loc, 8-byte address
      << 2, 9 >>,                       \* advance_loc1 9
      << 2 >>,                          \* advance_loc1, cut short
      << 3, 1, 2 >>,                    \* advance_loc2
      << 4, 8, 0, 0, 0 >>,              \* advance_loc4
      << 8, 3 >>,                       \* same_value r3
      << 9, 6, 3 >>,                    \* register r6, r3
      << 12, 7, 8 >>,                   \* def_cfa r7, 8
      << 14, 16 >>,                     \* def_cfa_offset 16
      << 15, 1, 156 >>,                 \* def_cfa_expression, 1-byte block
      << 16, 6, 5, 156 >>,              \* expression r6, 5-byte block cut short
      << 17, 6, 126 >>,                 \* offset_extended_sf r6, -2
      << 19, 124 >>,                    \* def_cfa_offset_sf -4
      << 20, 6, 129, 1 >>,              \* val_offset r6, 129
      << 21, 6, 127 >>,                 \* val_offset_sf r6, -1
      << 22, 6, 1, 156 >>,              \* val_expression r6, 1-byte block
      << 15, 250, 255, 255, 255, 15 >>, \* def_cfa_expression, block length
                                        \* 0xfffffffa in five bytes
      << 23 >> }                        \* no such opcode

RECURSIVE Streams(_)
Streams(n) ==
    IF n = 0
    THEN { <<>> }
    ELSE Streams(n - 1) \cup {s \o c : s \in Streams(n - 1), c \in Chunks}

\* The stream is decoded for 4-byte addresses on a big-endian host or for
\* 8-byte addresses on a little-endian host, in the host's byte order (the
\* default argument).
DecoderInit ==
    /\ instrs \in Streams(MaxChunks)
    /\ instrs_len = Len(instrs)
    /\ addrlen \in {4, 8}
    /\ address_size = addrlen
    /\ host_is_big_endian = (addrlen = 4)
    /\ data_alignment_factor \in {-8, 1}
    /\ use_host_byte_order = TRUE
    /\ pos = 0
    /\ decoded_instrs = <<>>
    /\ construction = "running"
    /\ bytes_read = {}
    /\ opcode_offsets = <<>>
    /\ operands_read = <<>>

\* const unsigned char *const limit = pos + instrs_len
limit == instrs_len

\* unsigned char opcode_byte = *pos++, while the loop is at pos.
opcode_byte == instrs[pos + 1]

opcode_from_byte(b) == IF b \div 64 # 0 THEN (b \div 64) * 64 ELSE b

\* The loop `while (pos < limit)` is at an opcode byte of one of the cases.
\* The loop is followed for instrs_len + 1 turns: a turn takes at least the
\* opcode byte, so a loop that consumes its range has ended by then.
Case(codes) ==
    /\ construction = "running"
    /\ pos < limit
    /\ Len(decoded_instrs) <= instrs_len
    /\ opcode_from_byte(opcode_byte) \in codes

\* Dwarf_Frame_Op3 decoded = { 0, 0, 0, 0, 0, 0 } with the two opcode fields
\* assigned.
Decoded ==
    [fp_base_op |-> opcode_byte \div 64,
     fp_extended_op |-> IF opcode_byte \div 64 = 0 THEN opcode_byte % 64 ELSE 0,
     fp_register |-> 0,
     fp_offset_or_block_len |-> {},
     fp_expr_block |-> <<>>,
     fp_instr_offset |-> 0]

\* A value assigned to the Dwarf_Half fp_register.
Half(x) == SumPow2(x \cap (0..15))

\* opcode_byte & ~0xc0
Low6 == BitsOfByte(opcode_byte) \ {6, 7}

\* push_back(frame_instr(dbg, decoded)), with the cursor at new_pos; the
\* bytes before read_to have been read, and the operands were read.
push_back(d, new_pos, read_to, operands) ==
    /\ decoded_instrs' = Append(decoded_instrs, d)
    /\ pos' = new_pos
    /\ bytes_read' = bytes_read \cup (pos..(read_to - 1))
    /\ opcode_offsets' = Append(opcode_offsets, pos)
    /\ operands_read' = Append(operands_read, operands)
    /\ UNCHANGED <<instrs, instrs_len, addrlen, address_size,
                   data_alignment_factor,
                   use_host_byte_order, host_is_big_endian, construction>>
    /\ UNCHANGED <<decode_vars, leb_vars, rewriter_vars, edge_vars,
                   opcode_vars>>

\* A failed assert (or a fault) in the instruction at pos, after the bytes
\* before read_to have been read.
DecoderAborts(read_to) ==
    /\ construction' = "aborted"
    /\ bytes_read' = bytes_read \cup (pos..(read_to - 1))
    /\ UNCHANGED <<instrs, instrs_len, addrlen, address_size,
                   data_alignment_factor,
                   use_host_byte_order, host_is_big_endian, pos, decoded_instrs,
                   opcode_offsets, operands_read>>
    /\ UNCHANGED <<decode_vars, leb_vars, rewriter_vars, edge_vars,
                   opcode_vars>>

\* case DW_CFA_advance_loc
DecodeAdvanceLoc ==
    /\ Case({DW_CFA_advance_loc})
    /\ push_back([Decoded EXCEPT !.fp_offset_or_block_len = Low6],
                 pos + 1, pos + 1, <<>>)

\* case DW_CFA_offset
DecodeOffset ==
    /\ Case({DW_CFA_offset})
    /\ \E o \in read_uleb128(instrs, pos + 1, limit) :
          IF ~o.ok
          THEN DecoderAborts(o.cur)
          ELSE push_back([Decoded EXCEPT
                             !.fp_register = Half(Low6),
                             !.fp_offset_or_block_len = Times64(data_alignment_factor, o.val)],
                         o.cur, o.cur, <<o.val>>)

\* case DW_CFA_restore
DecodeRestore ==
    /\ Case({DW_CFA_restore})
    /\ push_back([Decoded EXCEPT !.fp_register = Half(Low6)],
                 pos + 1, pos + 1, <<>>)

\* no_args: DW_CFA_nop, DW_CFA_remember_state, DW_CFA_restore_state
DecodeNoArgs ==
    /\ Case({DW_CFA_nop, DW_CFA_remember_state, DW_CFA_restore_state})
    /\ push_back(Decoded, pos + 1, pos + 1, <<>>)

\* case DW_CFA_set_loc
DecodeSetLoc ==
    /\ Case({DW_CFA_set_loc})
    /\ \E a \in read_addr(addrlen, instrs, pos + 1, limit, use_host_byte_order,
                          host_is_big_endian) :
          IF a.ok
          THEN push_back([Decoded EXCEPT !.fp_offset_or_block_len = a.val],
                         a.cur, a.cur, <<a.val>>)
          ELSE DecoderAborts(pos + 1)

\* case DW_CFA_advance_loc1: `*pos++` with no test against limit.  When the
\* opcode is the last byte of the stream the byte after the stream is read:
\* it has any value, or the read faults.
DecodeAdvanceLoc1 ==
    /\ Case({DW_CFA_advance_loc1})
    /\ IF pos + 1 < limit
       THEN push_back([Decoded EXCEPT !.fp_offset_or_block_len =
                                          BitsOfByte(instrs[pos + 2])],
                      pos + 2, pos + 2, <<BitsOfByte(instrs[pos + 2])>>)
       ELSE \/ \E outside \in {0, 255} :
                  push_back([Decoded EXCEPT !.fp_offset_or_block_len =
                                                BitsOfByte(outside)],
                            pos + 2, pos + 2, <<BitsOfByte(outside)>>)
            \/ DecoderAborts(pos + 2)

\* read_2byte_le / read_2byte_be, read_4byte_le / read_4byte_be as selected
\* by (host_is_big_endian() ^ use_host_byte_order).
read_delta(n, buf, cur, lim) ==
    {read_bytes(buf, cur, lim, n, ~(host_is_big_endian # use_host_byte_order))}

\* case DW_CFA_advance_loc2
DecodeAdvanceLoc2 ==
    /\ Case({DW_CFA_advance_loc2})
    /\ \E d \in read_delta(2, instrs, pos + 1, limit) :
          IF d.ok
          THEN push_back([Decoded EXCEPT !.fp_offset_or_block_len = d.val],
                         d.cur, d.cur, <<d.val>>)
          ELSE DecoderAborts(pos + 1)

\* case DW_CFA_advance_loc4: there is no break after the delta is read, and
\* control falls into uleb128_register_only.
DecodeAdvanceLoc4 ==
    /\ Case({DW_CFA_advance_loc4})
    /\ \E d \in read_delta(4, instrs, pos + 1, limit) :
          IF ~d.ok
          THEN DecoderAborts(pos + 1)
          ELSE \E r \in read_uleb128(instrs, d.cur, limit) :
                  IF ~r.ok
                  THEN DecoderAborts(r.cur)
                  ELSE push_back([Decoded EXCEPT
                                     !.fp_offset_or_block_len = d.val,
                                     !.fp_register = Half(r.val)],
                                 r.cur, r.cur, <<d.val, r.val>>)

\* uleb128_register_only: DW_CFA_restore_extended, DW_CFA_undefined,
\* DW_CFA_same_value, DW_CFA_def_cfa_register
DecodeRegisterOnly ==
    /\ Case({DW_CFA_restore_extended, DW_CFA_undefined, DW_CFA_same_value,
             DW_CFA_def_cfa_register})
    /\ \E r \in read_uleb128(instrs, pos + 1, limit) :
          IF ~r.ok
          THEN DecoderAborts(r.cur)
          ELSE push_back([Decoded EXCEPT
                             !.fp_register = Half(r.val)],
                         r.cur, r.cur, <<r.val>>)

\* uleb128_register_and_factored_offset: DW_CFA_offset_extended,
\* DW_CFA_register
DecodeRegisterAndFactoredOffset ==
    /\ Case({DW_CFA_offset_extended, DW_CFA_register})
    /\ \E r \in read_uleb128(instrs, pos + 1, limit) :
          IF ~r.ok
          THEN DecoderAborts(r.cur)
          ELSE \E o \in read_uleb128(instrs, r.cur, limit) :
                  IF ~o.ok
                  THEN DecoderAborts(o.cur)
                  ELSE push_back([Decoded EXCEPT
                                     !.fp_register = Half(r.val),
                                     !.fp_offset_or_block_len = Times64(data_alignment_factor, o.val)],
                                 o.cur, o.cur, <<r.val, o.val>>)

\* uleb128_register_and_offset: DW_CFA_def_cfa
DecodeRegisterAndOffset ==
    /\ Case({DW_CFA_def_cfa})
    /\ \E r \in read_uleb128(instrs, pos + 1, limit) :
          IF ~r.ok
          THEN DecoderAborts(r.cur)
          ELSE \E o \in read_uleb128(instrs, r.cur, limit) :
                  IF ~o.ok
                  THEN DecoderAborts(o.cur)
                  ELSE push_back([Decoded EXCEPT
                                     !.fp_register = Half(r.val),
                                     !.fp_offset_or_block_len = o.val],
                                 o.cur, o.cur, <<r.val, o.val>>)

\* uleb128_register_sleb128_offset: DW_CFA_offset_extended_sf,
\* DW_CFA_def_cfa_sf
DecodeRegisterSleb128Offset ==
    /\ Case({DW_CFA_offset_extended_sf, DW_CFA_def_cfa_sf})
    /\ \E r \in read_uleb128(instrs, pos + 1, limit) :
          IF ~r.ok
          THEN DecoderAborts(r.cur)
          ELSE \E o \in read_sleb128(instrs, r.cur, limit) :
                  IF ~o.ok
                  THEN DecoderAborts(o.cur)
                  ELSE push_back([Decoded EXCEPT
                                     !.fp_register = Half(r.val),
                                     !.fp_offset_or_block_len = Times64(data_alignment_factor, o.val)],
                                 o.cur, o.cur, <<r.val, o.val>>)

\* uleb128_offset_only: DW_CFA_def_cfa_offset
DecodeOffsetOnly ==
    /\ Case({DW_CFA_def_cfa_offset})
    /\ \E o \in read_uleb128(instrs, pos + 1, limit) :
          IF ~o.ok
          THEN DecoderAborts(o.cur)
          ELSE push_back([Decoded EXCEPT
                             !.fp_offset_or_block_len = o.val],
                         o.cur, o.cur, <<o.val>>)

\* sleb128_offset_only: DW_CFA_def_cfa_offset_sf
DecodeSleb128OffsetOnly ==
    /\ Case({DW_CFA_def_cfa_offset_sf})
    /\ \E o \in read_sleb128(instrs, pos + 1, limit) :
          IF ~o.ok
          THEN DecoderAborts(o.cur)
          ELSE push_back([Decoded EXCEPT
                             !.fp_offset_or_block_len = Times64(data_alignment_factor, o.val)],
                         o.cur, o.cur, <<o.val>>)

\* case DW_CFA_expression: the block is not read, and
\* `pos += decoded.fp_offset_or_block_len` is not tested against limit.
DecodeExpression ==
    /\ Case({DW_CFA_expression})
    /\ \E r \in read_uleb128(instrs, pos + 1, limit) :
          IF ~r.ok
          THEN DecoderAborts(r.cur)
          ELSE \E len \in read_uleb128(instrs, r.cur, limit) :
                  IF ~len.ok
                  THEN DecoderAborts(len.cur)
                  ELSE push_back([Decoded EXCEPT
                                     !.fp_register = Half(r.val),
                                     !.fp_offset_or_block_len = len.val,
                                     !.fp_expr_block = <<len.cur>>],
                                 len.cur + AsSigned(len.val), len.cur, <<r.val, len.val>>)

\* case DW_CFA_def_cfa_expression
DecodeDefCfaExpression ==
    /\ Case({DW_CFA_def_cfa_expression})
    /\ \E len \in read_uleb128(instrs, pos + 1, limit) :
          IF ~len.ok
          THEN DecoderAborts(len.cur)
          ELSE push_back([Decoded EXCEPT
                             !.fp_offset_or_block_len = len.val,
                             !.fp_expr_block = <<len.cur>>],
                         len.cur + AsSigned(len.val), len.cur, <<len.val>>)

\* case DW_CFA_val_offset: the offset is read by read_sleb128.
DecodeValOffset ==
    /\ Case({DW_CFA_val_offset})
    /\ \E r \in read_uleb128(instrs, pos + 1, limit) :
          IF ~r.ok
          THEN DecoderAborts(r.cur)
          ELSE \E o \in read_sleb128(instrs, r.cur, limit) :
                  IF ~o.ok
                  THEN DecoderAborts(o.cur)
                  ELSE push_back([Decoded EXCEPT
                                     !.fp_register = Half(r.val),
                                     !.fp_offset_or_block_len = Times64(data_alignment_factor, o.val)],
                                 o.cur, o.cur, <<r.val, o.val>>)

\* case DW_CFA_val_offset_sf: the offset is read by read_uleb128.
DecodeValOffsetSf ==
    /\ Case({DW_CFA_val_offset_sf})
    /\ \E r \in read_uleb128(instrs, pos + 1, limit) :
          IF ~r.ok
          THEN DecoderAborts(r.cur)
          ELSE \E o \in read_uleb128(instrs, r.cur, limit) :
                  IF ~o.ok
                  THEN DecoderAborts(o.cur)
                  ELSE push_back([Decoded EXCEPT
                                     !.fp_register = Half(r.val),
                                     !.fp_offset_or_block_len = Times64(data_alignment_factor, o.val)],
                                 o.cur, o.cur, <<r.val, o.val>>)

\* case DW_CFA_val_expression
DecodeValExpression ==
    /\ Case({DW_CFA_val_expression})
    /\ \E r \in read_uleb128(instrs, pos + 1, limit) :
          IF ~r.ok
          THEN DecoderAborts(r.cur)
          ELSE \E len \in read_uleb128(instrs, r.cur, limit) :
                  IF ~len.ok
                  THEN DecoderAborts(len.cur)
                  ELSE push_back([Decoded EXCEPT
                                     !.fp_register = Half(r.val),
                                     !.fp_offset_or_block_len = len.val,
                                     !.fp_expr_block = <<len.cur>>],
                                 len.cur + AsSigned(len.val), len.cur, <<r.val, len.val>>)

\* The opcodes the switch has a case for.
DecoderOpcodes ==
    {DW_CFA_advance_loc, DW_CFA_offset, DW_CFA_restore} \cup (0..22)

\* The default case without its assert: the byte becomes an instruction with
\* no operand.
DecodeDefault_Skips ==
    /\ Case((0..255) \ DecoderOpcodes)
    /\ push_back(Decoded, pos + 1, pos + 1, <<>>)

\* default: assert(false)
DecodeDefault ==
    /\ Case((0..255) \ DecoderOpcodes)
    /\ DecoderAborts(pos + 1)

\* The loop ends: !(pos < limit).
DecodeDone ==
    /\ construction = "running"
    /\ ~(pos < limit)
    /\ construction' = "returned"
    /\ UNCHANGED <<instrs, instrs_len, addrlen, address_size,
                   data_alignment_factor,
                   use_host_byte_order, host_is_big_endian, pos, decoded_instrs,
                   bytes_read, opcode_offsets, operands_read>>
    /\ UNCHANGED <<decode_vars, leb_vars, rewriter_vars, edge_vars,
                   opcode_vars>>

DecoderNext ==
    \/ DecodeAdvanceLoc
    \/ DecodeOffset
    \/ DecodeRestore
    \/ DecodeNoArgs
    \/ DecodeSetLoc
    \/ DecodeAdvanceLoc1
    \/ DecodeAdvanceLoc2
    \/ DecodeAdvanceLoc4
    \/ DecodeRegisterOnly
    \/ DecodeRegisterAndFactoredOffset
    \/ DecodeRegisterAndOffset
    \/ DecodeRegisterSleb128Offset
    \/ DecodeOffsetOnly
    \/ DecodeSleb128OffsetOnly
    \/ DecodeExpression
    \/ DecodeDefCfaExpression
    \/ DecodeValOffset
    \/ DecodeValOffsetSf
    \/ DecodeValExpression
    \/ DecodeDefault
    \/ DecodeDone

SpecDecoderInit ==
    DecoderInit /\ DecodeIdle /\ LebIdle /\ RewriterIdle /\ EdgeIdle /\ OpcodeArrayIdle

SpecDecoder == SpecDecoderInit /\ [][DecoderNext]_vars


\* ------------------------------------------------------------------------
\* Vocabulary of the properties of the decoder.

\* The opcode of the i-th decoded instruction, as in the stream.
OpcodeAt(i) == opcode_from_byte(instrs[opcode_offsets[i] + 1])

Decodeds == 1..Len(decoded_instrs)

\* The offset after the last byte of the i-th decoded instruction: where the
\* next one was decoded, or the cursor.
EndOf(i) == IF i < Len(opcode_offsets) THEN opcode_offsets[i + 1] ELSE pos

\* The extended opcodes of DWARF call frame instructions (0x00 to 0x16).
DocumentedExtended == 0..22

\* The byte at an instruction boundary is no documented opcode.
Unrecognized(b) == b \div 64 = 0 /\ b % 64 \notin DocumentedExtended

C13_OperandReadsBounded ==
    \A b \in bytes_read : b < limit

\* C14: a construction that returns has its cursor exactly at the limit when
\* the last instruction is block-valued, and no block it recorded extends
\* past the limit; so a block length larger than the bytes remaining makes
\* the construction fail.
C14_BlockWithinLimit ==
    construction = "returned" =>
        \A i \in Decodeds :
            OpcodeAt(i) \in {DW_CFA_expression, DW_CFA_def_cfa_expression,
                             DW_CFA_val_expression} =>
                /\ decoded_instrs[i].fp_expr_block[1]
                      + AsSigned(decoded_instrs[i].fp_offset_or_block_len) <= limit
                /\ i = Len(decoded_instrs) => pos = limit

\* The opcodes whose offset operand is factored, and those whose second
\* operand is stored as read.
FactoredOffsetOpcodes ==
    {DW_CFA_offset, DW_CFA_offset_extended, DW_CFA_offset_extended_sf,
     DW_CFA_def_cfa_sf, DW_CFA_def_cfa_offset_sf, DW_CFA_val_offset,
     DW_CFA_val_offset_sf}

UnfactoredOpcodes == {DW_CFA_register, DW_CFA_def_cfa, DW_CFA_def_cfa_offset}

\* The opcodes whose first operand is a register number.
RegisterOperandOpcodes ==
    {DW_CFA_offset_extended, DW_CFA_restore_extended, DW_CFA_undefined,
     DW_CFA_same_value, DW_CFA_register, DW_CFA_def_cfa, DW_CFA_def_cfa_register,
     DW_CFA_expression, DW_CFA_offset_extended_sf, DW_CFA_def_cfa_sf,
     DW_CFA_val_offset, DW_CFA_val_offset_sf, DW_CFA_val_expression}

\* The last operand read for the i-th decoded instruction.
LastOperand(i) == operands_read[i][Len(operands_read[i])]

\* C18: the offset field holds the operand times the data alignment factor
\* for the opcodes with a factored offset, and the operand itself for
\* DW_CFA_register (its second register), DW_CFA_def_cfa and
\* DW_CFA_def_cfa_offset; register numbers are stored as read.
C18_OnlyFactoredOffsetsScaled ==
    \A i \in Decodeds :
        /\ OpcodeAt(i) \in FactoredOffsetOpcodes =>
              decoded_instrs[i].fp_offset_or_block_len =
                  Times64(data_alignment_factor, LastOperand(i))
        /\ OpcodeAt(i) \in UnfactoredOpcodes =>
              decoded_instrs[i].fp_offset_or_block_len = LastOperand(i)
        /\ OpcodeAt(i) \in RegisterOperandOpcodes =>
              decoded_instrs[i].fp_register = Half(operands_read[i][1])

\* The offset of the second operand of the i-th decoded instruction: the
\* first one, a ULEB128, ends at the first byte with no continuation bit.
SecondOperandAt(i) ==
    (CHOOSE k \in (opcode_offsets[i] + 1)..(limit - 1) :
        /\ instrs[k + 1] < 128
        /\ \A j \in (opcode_offsets[i] + 1)..(k - 1) : instrs[j + 1] >= 128) + 1

\* The bytes of the stream from offset `from` up to the end of the i-th
\* decoded instruction.
OperandBytes(i, from) == SubSeq(instrs, from + 1, EndOf(i))

\* C19: the offset of DW_CFA_val_offset is decoded as a ULEB128 and the one of
\* DW_CFA_val_offset_sf as a SLEB128: when the operand is the encoding of v,
\* the offset field is v times the data alignment factor, negative for
\* val_offset_sf with a negative v and a positive factor.
C19_ValOffsetSignedness ==
    \A i \in Decodeds : \A v \in LebValues :
        /\ (/\ OpcodeAt(i) = DW_CFA_val_offset
            /\ OperandBytes(i, SecondOperandAt(i)) = encode_uleb128(v))
              => decoded_instrs[i].fp_offset_or_block_len =
                     Times64(data_alignment_factor, v)
        /\ (/\ OpcodeAt(i) = DW_CFA_val_offset_sf
            /\ OperandBytes(i, SecondOperandAt(i)) = encode_sleb128(v))
              => decoded_instrs[i].fp_offset_or_block_len =
                     Times64(data_alignment_factor, v)

\* The size of the delta of DW_CFA_advance_loc1/2/4.
DeltaSize(op) ==
    IF op = DW_CFA_advance_loc1 THEN 1
    ELSE IF op = DW_CFA_advance_loc2 THEN 2 ELSE 4

\* C20: a decoded DW_CFA_advance_loc1/2/4 whose delta lies in the stream has
\* taken the opcode byte and the 1, 2 or 4 bytes of the delta, its offset
\* field is the delta (in the byte order of the host), its register field is
\* 0, and the next instruction starts right after the delta.
C20_AdvanceLocN ==
    \A i \in Decodeds :
        OpcodeAt(i) \in {DW_CFA_advance_loc1, DW_CFA_advance_loc2,
                         DW_CFA_advance_loc4} =>
            LET n == DeltaSize(OpcodeAt(i))
                at == opcode_offsets[i] + 1
            IN at + n <= limit =>
                  /\ EndOf(i) = at + n
                  /\ decoded_instrs[i].fp_register = 0
                  /\ decoded_instrs[i].fp_offset_or_block_len =
                         IF host_is_big_endian
                         THEN bytes_be(instrs, at, n)
                         ELSE bytes_le(instrs, at, n)

\* C21: every decoded instruction records the offset of its opcode byte in
\* the stream: 0 for the first one, and for each later one the offset of the
\* previous instruction plus the bytes that one consumed.
C21_InstrOffsetRecorded ==
    \A i \in Decodeds :
        /\ decoded_instrs[i].fp_instr_offset = opcode_offsets[i]
        /\ i = 1 => decoded_instrs[i].fp_instr_offset = 0
        /\ i > 1 => decoded_instrs[i].fp_instr_offset =
                        decoded_instrs[i - 1].fp_instr_offset
                            + (opcode_offsets[i] - opcode_offsets[i - 1])

\* ------------------------------------------------------------------------
\* Row creation and register rules, instruction by instruction.

\* The target address of the row-creating instruction k of the current list:
\* the operand of set_loc, the open row's start plus the delta otherwise.
TargetAddress(k) ==
    IF OpCode(instrlist[k]) = DW_CFA_set_loc
    THEN instrlist[k].fp_offset_or_block_len
    ELSE StateAt(k).addr + instrlist[k].fp_offset_or_block_len

\* C29: after a row-creating instruction with target address A is
\* interpreted, the row that was open is committed over [its start, A) and
\* the open row starts at A.
C29_RowCreationMovesOpenRow ==
    \A k \in 1..Interpreted :
        OpCode(instrlist[k]) \in RowCreating =>
            /\ StateAt(k + 1).rows =
                   interval_map_add(StateAt(k).rows,
                                    right_open(StateAt(k).addr, TargetAddress(k)),
                                    current_row_defs_set(StateAt(k).defs))
            /\ StateAt(k + 1).addr = TargetAddress(k)

RegisterRuleOps ==
    {DW_CFA_offset, DW_CFA_offset_extended, DW_CFA_offset_extended_sf,
     DW_CFA_same_value, DW_CFA_undefined, DW_CFA_register,
     DW_CFA_val_offset, DW_CFA_val_offset_sf,
     DW_CFA_expression, DW_CFA_val_expression}

\* C30: a register-rule instruction naming register r changes only r's entry
\* of the rule table: every other entry (the rules of the other registers and
\* the CFA rule), the committed rows, the row address and the save stack are
\* as they were before the instruction.
C30_RegisterRuleFrame ==
    \A k \in 1..Interpreted :
        OpCode(instrlist[k]) \in RegisterRuleOps =>
            /\ DOMAIN StateAt(k + 1).defs =
                   DOMAIN StateAt(k).defs \cup {instrlist[k].fp_register}
            /\ \A x \in DOMAIN StateAt(k).defs \ {instrlist[k].fp_register} :
                   StateAt(k + 1).defs[x] = StateAt(k).defs[x]
            /\ StateAt(k + 1).rows = StateAt(k).rows
            /\ StateAt(k + 1).addr = StateAt(k).addr
            /\ StateAt(k + 1).stack = StateAt(k).stack

\* A register-rule instruction has replaced the rule of its register while
\* the CFA and another register had rules.
C30_Witness ==
    \E k \in 1..Interpreted :
        /\ OpCode(instrlist[k]) \in RegisterRuleOps
        /\ DW_FRAME_CFA_COL3 \in DOMAIN StateAt(k).defs
        /\ instrlist[k].fp_register \in DOMAIN StateAt(k).defs
        /\ StateAt(k + 1).defs[instrlist[k].fp_register]
               # StateAt(k).defs[instrlist[k].fp_register]
        /\ \E x \in DOMAIN StateAt(k).defs :
               x \notin {instrlist[k].fp_register, DW_FRAME_CFA_COL3}

\* ------------------------------------------------------------------------
\* Termination of the decoder loop.

\* C27: the decoder loop finishes after consuming at most the bytes of its
\* range: every turn of the loop leaves the cursor beyond the opcode byte it
\* started at, so the loop decodes at most instrs_len instructions.
C27_DecoderLoopProgresses ==
    /\ \A i \in Decodeds : EndOf(i) > opcode_offsets[i]
    /\ Len(decoded_instrs) <= instrs_len

\* ------------------------------------------------------------------------
\* rewrite_loclist_in_terms_of_cfa (frame.cpp:526-652): the edge sets.

\* register_def::register_plus_offset_r() of a REGISTER definition.
register_plus_offset_r(d) == <<d.reg, d.off>>

\* edge::edge(map_entry), for a map entry whose definition is of kind
\* REGISTER (the constructor asserts it).
edge(map_entry) ==
    [from_reg |-> register_plus_offset_r(map_entry[2])[1],
     to_reg |-> map_entry[1],
     difference |-> register_plus_offset_r(map_entry[2])[2]]

\* std::set<edge>(i_row->second.begin(), i_row->second.end()): an edge is
\* constructed from every entry of the row, and the constructor's assert
\* fails on an entry that is not of kind REGISTER.
set_of_edges(entries) ==
    IF \A e \in entries : e[2].k = "REGISTER"
    THEN [ok |-> TRUE, set |-> {edge(e) : e \in entries}]
    ELSE [ok |-> FALSE, set |-> {}]

\* The (register, rule) pairs rows are made of.
RowEntries ==
    { <<DW_FRAME_CFA_COL3, register_plus_offset_w(7, 8)>>,
      <<DW_FRAME_CFA_COL3, register_plus_offset_w(7, 16)>>,
      <<3, register_plus_offset_w(6, 0)>>,
      <<6, saved_at_offset_from_cfa_w(-16)>>,
      <<6, undefined_w>>,
      <<3, same_value_w>>,
      <<6, val_is_offset_from_cfa_w(8)>>,
      <<3, saved_at_expr_w(BlockA)>>,
      <<6, val_of_expr_w(BlockA)>> }

\* A row holds up to MaxRowEntries entries.
MaxRowEntries == 3

EdgeInit ==
    /\ i_row \in {s \in SUBSET RowEntries : Cardinality(s) <= MaxRowEntries}
    /\ edge_set = <<>>

\* The row's edge set is constructed.
ConstructEdgeSet ==
    /\ edge_set = <<>>
    /\ edge_set' = <<set_of_edges(i_row)>>
    /\ UNCHANGED i_row
    /\ UNCHANGED <<decode_vars, decoder_vars, leb_vars, rewriter_vars,
                   opcode_vars>>

EdgeNext == ConstructEdgeSet

SpecEdgesInit ==
    EdgeInit /\ DecodeIdle /\ DecoderIdle /\ LebIdle /\ RewriterIdle /\ OpcodeArrayIdle

\* The construction of the edge set of a row.
SpecEdges == SpecEdgesInit /\ [][EdgeNext]_vars

expr_instr(atom, number) == [lr_atom |-> atom, lr_number |-> number]

\* encap::loc_expr with its address range (expr.hpp:66-67).
Locdesc(lo, hi, ops) == [lopc |-> lo, hipc |-> hi, expr |-> ops]

\* DW_OP_breg7 (0x77) -8
Breg7Minus8 == << expr_instr(119, -8) >>

\* The location lists rewritten.
Loclists ==
    { <<>>,
      << Locdesc(12, 16, Breg7Minus8) >>,
      << Locdesc(4, 12, << expr_instr(118, 0) >>),
         Locdesc(12, 16, Breg7Minus8) >>,
      << Locdesc(0, 0, << expr_instr(156, 0) >>) >> }

\* A core::Fde as the rewriter uses it: get_low_pc(), get_func_length() and
\* the rows decode() returns.
Fde(lo, len, decoded_rows) ==
    [low_pc |-> lo, func_length |-> len, rows |-> decoded_rows]

\* The FDEs of the frame sections.  The first is the decode of the CIE
\* def_cfa(7, 8) with the FDE advance_loc(4), def_cfa_offset(16) over
\* [4, 12); the others have no row-creating instruction.
Fdes ==
    { Fde(4, 8, interval_map_add(interval_map_add({}, right_open(4, 8),
                                                  CfaRow(7, 8)),
                                 right_open(4, 12), CfaRow(7, 16))),
      Fde(12, 4, interval_map_add({}, right_open(12, 16), CfaRow(7, 8))),
      Fde(16, 4, interval_map_add({}, right_open(16, 20),
                                  CfaRow(7, 8)
                                      \cup {<<6, saved_at_offset_from_cfa_w(-16)>>})) }

FrameSections == SUBSET Fdes

\* FrameSection::find_fde_for_pc(pc): the FDEs whose range holds pc ({} for
\* fde_end()).
find_fde_for_pc(section, pc) ==
    {f \in section : f.low_pc <= pc /\ pc < f.low_pc + f.func_length}

\* Longest sequence of queried intervals.
MaxIntervals == 2

QueriedIntervals ==
    { [lower |-> 0, upper |-> 2], [lower |-> 4, upper |-> 8],
      [lower |-> 6, upper |-> 10], [lower |-> 10, upper |-> 14],
      [lower |-> 12, upper |-> 16], [lower |-> 16, upper |-> 20] }

\* The keys of an interval map: disjoint intervals in address order.
IntervalSeqs ==
    { s \in UNION {[1..n -> QueriedIntervals] : n \in 0..MaxIntervals} :
          \A i \in 1..(Len(s) - 1) : s[i].upper <= s[i + 1].lower }

\* What the uninitialised `Dwarf_Addr lopc` may hold.
IndeterminateAddrs == {0, 99}

RewriterInit ==
    /\ l \in Loclists
    /\ fs \in FrameSections
    /\ containing_intervals \in IntervalSeqs
    /\ i_int = 1
    /\ current = <<>>
    /\ hipc = 0
    /\ edges = {}
    /\ rewrite = "running"
    /\ rewritten = <<>>

Max(a, b) == IF a > b THEN a ELSE b
Min(a, b) == IF a < b THEN a ELSE b

\* The sets of the rows of an interval map.
RowSets(w) == {RowAt(w, a) : a \in Covered(w)}

\* The loop `while (lopc < i_int->first.upper() && hipc > i_int->first.lower())`
\* with lopc = lo, hipc = hi and cur the Fde last assigned through *current:
\* the outcome when the loop ends, or the failure of an assert in its body.
RECURSIVE walk_fdes(_, _, _, _, _)
walk_fdes(lo, hi, cur, e, ival) ==
    IF lo < ival.upper /\ hi > ival.lower
    THEN IF \E s \in RowSets(cur.rows) : ~set_of_edges(s).ok
         THEN [ok |-> FALSE, hipc |-> hi, edges |-> e]
         ELSE IF find_fde_for_pc(fs, hi) = {}
              THEN [ok |-> FALSE, hipc |-> hi, edges |-> e]
              ELSE LET found == CHOOSE f \in find_fde_for_pc(fs, hi) : TRUE
                   IN  walk_fdes(found.low_pc,
                                 found.low_pc + found.func_length,
                                 found,
                                 interval_map_add(e,
                                     right_open(Max(lo, ival.lower),
                                                Min(hi, ival.upper)),
                                     UNION {set_of_edges(s).set :
                                                s \in RowSets(cur.rows)}),
                                 ival)
    ELSE [ok |-> TRUE, hipc |-> hi, edges |-> e]

\* A failed assert: the rewrite is aborted.
RewriterAborts ==
    /\ rewrite' = "aborted"
    /\ UNCHANGED <<l, fs, containing_intervals, i_int, current, hipc, edges,
                   rewritten>>
    /\ UNCHANGED <<decode_vars, decoder_vars, leb_vars, edge_vars,
                   opcode_vars>>

\* The while loop and ++i_int.  `current` stays disengaged: the FDE was
\* assigned through *current, which does not engage an optional.
WalkInterval(lopc, cur, ival) ==
    IF walk_fdes(lopc, hipc, cur, edges, ival).ok
    THEN /\ hipc' = walk_fdes(lopc, hipc, cur, edges, ival).hipc
         /\ edges' = walk_fdes(lopc, hipc, cur, edges, ival).edges
         /\ i_int' = i_int + 1
         /\ UNCHANGED <<l, fs, containing_intervals, current, rewrite, rewritten>>
         /\ UNCHANGED <<decode_vars, decoder_vars, leb_vars, edge_vars,
                   opcode_vars>>
    ELSE RewriterAborts

\* One turn of `for (auto i_int = containing_intervals.begin(); ...)`.
\* lopc is read uninitialised.  `*current = *found` dereferences an empty
\* boost::optional: BOOST_ASSERT fails in a build that checks it, and the
\* Fde is assigned into the optional's storage in a build that does not.
RewriteInterval ==
    /\ rewrite = "running"
    /\ i_int <= Len(containing_intervals)
    /\ IF (hipc = 0 /\ current = <<>>) \/ hipc > containing_intervals[i_int].lower
       THEN \E lopc \in IndeterminateAddrs :
               IF current = <<>>
               THEN IF find_fde_for_pc(fs, containing_intervals[i_int].lower) # {}
                    THEN \E found \in find_fde_for_pc(fs,
                                          containing_intervals[i_int].lower),
                            boost_asserts \in BOOLEAN :
                            IF boost_asserts
                            THEN RewriterAborts
                            ELSE WalkInterval(lopc, found, containing_intervals[i_int])
                    ELSE RewriterAborts
               ELSE WalkInterval(lopc, current[1], containing_intervals[i_int])
       ELSE RewriterAborts

\* return l
RewriterReturn ==
    /\ rewrite = "running"
    /\ i_int > Len(containing_intervals)
    /\ rewritten' = <<l>>
    /\ rewrite' = "returned"
    /\ UNCHANGED <<l, fs, containing_intervals, i_int, current, hipc, edges>>
    /\ UNCHANGED <<decode_vars, decoder_vars, leb_vars, edge_vars,
                   opcode_vars>>

RewriterNext ==
    \/ RewriteInterval
    \/ RewriterReturn

SpecRewriterInit ==
    RewriterInit /\ DecodeIdle /\ DecoderIdle /\ LebIdle /\ EdgeIdle /\ OpcodeArrayIdle

\* rewrite_loclist_in_terms_of_cfa on a location list, a frame section and
\* the queried intervals.
SpecRewriter == SpecRewriterInit /\ [][RewriterNext]_vars

\* ------------------------------------------------------------------------
\* Vocabulary of the properties of the rewriter.

\* The stack of a location expression after its first n operations, for the
\* value reg of the register the expression's DW_OP_bregN names and the
\* frame address cfa: DW_OP_breg0..31 (0x70..0x8f) pushes reg plus its
\* operand, DW_OP_call_frame_cfa (0x9c) pushes cfa, DW_OP_consts (0x11)
\* pushes its operand, DW_OP_plus (0x22) adds the two top entries.
RECURSIVE EvalStack(_, _, _, _)
EvalStack(ops, n, reg, cfa) ==
    IF n = 0
    THEN <<>>
    ELSE LET st == EvalStack(ops, n - 1, reg, cfa)
             op == ops[n]
         IN  IF op.lr_atom \in 112..143
             THEN Append(st, reg + op.lr_number)
             ELSE IF op.lr_atom = 156
                  THEN Append(st, cfa)
                  ELSE IF op.lr_atom = 17
                       THEN Append(st, op.lr_number)
                       ELSE IF op.lr_atom = 34 /\ Len(st) >= 2
                            THEN Append(SubSeq(st, 1, Len(st) - 2),
                                        st[Len(st) - 1] + st[Len(st)])
                            ELSE st

TestValues == {0, 64, 1000}

\* The expression yields cfa + k whatever the registers hold.
IsCfaPlus(ops, k) ==
    \A reg \in TestValues, cfa \in TestValues :
        /\ EvalStack(ops, Len(ops), reg, cfa) # <<>>
        /\ EvalStack(ops, Len(ops), reg, cfa)[Len(EvalStack(ops, Len(ops), reg, cfa))]
               = cfa + k

\* The rules the frame section's rows hold for address a.
RulesAt(a) == UNION {RowAt(f.rows, a) : f \in find_fde_for_pc(fs, a)}

\* C22: the rewrite of a list whose expression is breg7(-8), over a queried
\* range whose row defines CFA = reg7 + 8, returns for that range an
\* expression equal to CFA - 16.
C22_Breg7RewrittenToCfa ==
    rewrite = "returned" =>
        \A i \in 1..Len(l) :
            ( /\ l[i].expr = Breg7Minus8
              /\ \E j \in 1..Len(containing_intervals) :
                     /\ containing_intervals[j].lower = l[i].lopc
                     /\ containing_intervals[j].upper = l[i].hipc
              /\ \A a \in right_open(l[i].lopc, l[i].hipc) :
                     RulesAt(a) = CfaRow(7, 8) ) =>
                \A a \in right_open(l[i].lopc, l[i].hipc) :
                    \E k \in 1..Len(rewritten[1]) :
                        /\ a \in right_open(rewritten[1][k].lopc, rewritten[1][k].hipc)
                        /\ IsCfaPlus(rewritten[1][k].expr, -16)

\* C26: for every queried interval covered by an FDE, the walk records for
\* each row of that FDE overlapping the interval the row's edge set over the
\* intersection of the row's range with the interval, and records nothing
\* outside the queried intervals.
C26_WalkRecordsRowIntersections ==
    rewrite = "returned" =>
        /\ \A j \in 1..Len(containing_intervals) :
               \A f \in find_fde_for_pc(fs, containing_intervals[j].lower) :
                   \A a \in right_open(containing_intervals[j].lower,
                                       containing_intervals[j].upper)
                                \cap Covered(f.rows) :
                       set_of_edges(RowAt(f.rows, a)).ok =>
                           RowAt(edges, a) = set_of_edges(RowAt(f.rows, a)).set
        /\ Covered(edges) \subseteq
               UNION {right_open(containing_intervals[j].lower,
                                 containing_intervals[j].upper) :
                          j \in 1..Len(containing_intervals)}

\* ------------------------------------------------------------------------
\* Two Fde::decode calls running concurrently in one process.

\* The locals of the running call.
Locals ==
    [low_pc |-> low_pc,
     func_length |-> func_length,
     cie_instrlist |-> cie_instrlist,
     fde_instrlist |-> fde_instrlist,
     pass |-> pass,
     outcome |-> outcome,
     i_op |-> i_op,
     working |-> working,
     current_row_defs |-> current_row_defs,
     current_row_addr |-> current_row_addr,
     remembered_row_defs |-> remembered_row_defs,
     initial_instrs_results |-> initial_instrs_results,
     snaps |-> snaps]

\* The locals of a call on the FDE at lo that has entered its first interp
\* call on the CIE's instructions cie.
EnteredCall(lo, len, cie) ==
    [low_pc |-> lo,
     func_length |-> len,
     cie_instrlist |-> cie,
     fde_instrlist |-> <<>>,
     pass |-> "cie",
     outcome |-> "running",
     i_op |-> 1,
     working |-> {},
     current_row_defs |-> EmptyRow,
     current_row_addr |-> lo,
     remembered_row_defs |-> <<>>,
     initial_instrs_results |-> <<>>,
     snaps |-> <<>>]

\* The CIE of the two FDEs decoded concurrently.
ConcurrentCie == << frame_instr(DW_CFA_def_cfa, 7, 8, <<>>) >>

\* Two calls, on the FDE at 4 and on the FDE at 12 of the same CIE, have
\* both entered their first interp call; call 1 is running.
ConcurrentInit ==
    /\ low_pc = 4
    /\ func_length = 8
    /\ cie_instrlist = ConcurrentCie
    /\ fde_instrlist = <<>>
    /\ pass = "cie"
    /\ outcome = "running"
    /\ i_op = 1
    /\ working = {}
    /\ current_row_defs = EmptyRow
    /\ current_row_addr = low_pc
    /\ remembered_row_defs = <<>>
    /\ initial_instrs_results = <<>>
    /\ snaps = <<>>
    /\ cerr \in { <<instrlist_line(1, "cie"), instrlist_line(2, "cie")>>,
                  <<instrlist_line(2, "cie"), instrlist_line(1, "cie")>> }
    /\ call = 1
    /\ suspended = <<EnteredCall(12, 8, ConcurrentCie)>>

\* The other call is scheduled: the running call's locals are set aside and
\* the other call's locals are the current ones.  A failed assert has ended
\* the process, and a call that has ended takes no more steps.
ContextSwitch ==
    /\ suspended # <<>>
    /\ outcome # "aborted"
    /\ suspended[1].outcome = "running"
    /\ suspended' = <<Locals>>
    /\ call' = 3 - call
    /\ low_pc' = suspended[1].low_pc
    /\ func_length' = suspended[1].func_length
    /\ cie_instrlist' = suspended[1].cie_instrlist
    /\ fde_instrlist' = suspended[1].fde_instrlist
    /\ pass' = suspended[1].pass
    /\ outcome' = suspended[1].outcome
    /\ i_op' = suspended[1].i_op
    /\ working' = suspended[1].working
    /\ current_row_defs' = suspended[1].current_row_defs
    /\ current_row_addr' = suspended[1].current_row_addr
    /\ remembered_row_defs' = suspended[1].remembered_row_defs
    /\ initial_instrs_results' = suspended[1].initial_instrs_results
    /\ snaps' = suspended[1].snaps
    /\ UNCHANGED cerr
    /\ UNCHANGED <<decoder_vars, leb_vars, rewriter_vars, edge_vars,
                   opcode_vars>>

ConcurrentNext ==
    \/ SetLoc
    \/ AdvanceLoc
    \/ DefCfa
    \/ DefCfaRegister
    \/ DefCfaOffset
    \/ DefCfaExpression
    \/ Undefined
    \/ SameValue
    \/ Offset
    \/ ValOffset
    \/ Register
    \/ Expression
    \/ ValExpression
    \/ Restore
    \/ RestoreState
    \/ RememberState
    \/ Nop
    \/ InitialInstrsDone
    \/ FinalCommit
    \/ ContextSwitch

SpecConcurrentInit ==
    ConcurrentInit /\ DecoderIdle /\ LebIdle /\ RewriterIdle /\ EdgeIdle /\ OpcodeArrayIdle

SpecConcurrent == SpecConcurrentInit /\ [][ConcurrentNext]_vars

\* C28: two concurrent Fde::decode calls share no mutable state: a step of
\* one call changes neither the state shared by the calls (the stream cerr)
\* nor the locals of the other call, so each call computes the rows it
\* computes alone.
C28_CallsShareNoState ==
    [][call' = call => (cerr' = cerr /\ suspended' = suspended)]_vars

\* A step of one call leaves the locals of the other call alone.
OtherCallsLocalsUntouched ==
    [][call' = call => suspended' = suspended]_vars

\* ------------------------------------------------------------------------
\* The save stack.

\* The index of the remember_state that the restore_state at index k of list
\* pops: the nearest one before k not popped by a restore_state in between
\* (0 if there is none).  j is the index looked at, depth the number of
\* restore_state between j and k still to be matched.
RECURSIVE MatchingRemember(_, _, _)
MatchingRemember(list, j, depth) ==
    IF j = 0
    THEN 0
    ELSE IF OpCode(list[j]) = DW_CFA_restore_state
         THEN MatchingRemember(list, j - 1, depth + 1)
         ELSE IF OpCode(list[j]) = DW_CFA_remember_state
              THEN IF depth = 0
                   THEN j
                   ELSE MatchingRemember(list, j - 1, depth - 1)
              ELSE MatchingRemember(list, j - 1, depth)

\* C31: the save stack is last-in-first-out: a restore_state sets the rule
\* table to the table that was current at the remember_state it pops (the
\* k-th restore_state after n remember_state pops the (n-k+1)-th), leaving
\* the stack as it was before that remember_state; and neither instruction
\* changes the committed rows or the row address.
C31_SaveStackIsLifo ==
    \A k \in 1..Interpreted :
        /\ OpCode(instrlist[k]) = DW_CFA_restore_state =>
               /\ MatchingRemember(instrlist, k - 1, 0) # 0
               /\ StateAt(k + 1).defs =
                      StateAt(MatchingRemember(instrlist, k - 1, 0)).defs
               /\ StateAt(k + 1).stack =
                      StateAt(MatchingRemember(instrlist, k - 1, 0)).stack
        /\ OpCode(instrlist[k]) \in {DW_CFA_restore_state, DW_CFA_remember_state} =>
               /\ StateAt(k + 1).rows = StateAt(k).rows
               /\ StateAt(k + 1).addr = StateAt(k).addr

\* Two restore_state in a row have popped two remember_state between which
\* the rule table changed: the second one brought back the older table.
C31_Witness ==
    \E k \in 2..Interpreted :
        /\ OpCode(instrlist[k]) = DW_CFA_restore_state
        /\ OpCode(instrlist[k - 1]) = DW_CFA_restore_state
        /\ StateAt(k - 1).depth = 2
        /\ StateAt(k + 1).defs # StateAt(k).defs
        /\ StateAt(k).defs # StateAt(k - 1).defs
        /\ MatchingRemember(instrlist, k - 1, 0)
               < MatchingRemember(instrlist, k - 2, 0)

\* ------------------------------------------------------------------------
\* Restore in the CIE's initial instructions.

\* C34: a restore or restore_extended among the CIE's initial instructions,
\* where no initial snapshot exists yet, reads no snapshot and ends in a
\* defined outcome: the decode fails, or the register's rule is UNDEFINED and
\* every other entry of the rule table is as it was.
C34_RestoreWithoutSnapshot ==
    pass = "cie" =>
        \A k \in 1..Interpreted :
            OpCode(instrlist[k]) \in RestoreOps =>
                /\ DOMAIN StateAt(k + 1).defs =
                       DOMAIN StateAt(k).defs \cup {instrlist[k].fp_register}
                /\ StateAt(k + 1).defs[instrlist[k].fp_register] = undefined_w
                /\ \A x \in DOMAIN StateAt(k).defs \ {instrlist[k].fp_register} :
                       StateAt(k + 1).defs[x] = StateAt(k).defs[x]

\* ------------------------------------------------------------------------
\* The instructions the decoder hands to the interpreter.

\* The case labels of the interpreter's switch (frame.cpp:366-485); any other
\* code goes to unsupported_for_now.
InterpreterOpcodes ==
    RowCreating
        \cup {DW_CFA_def_cfa, DW_CFA_def_cfa_sf, DW_CFA_def_cfa_expression}
        \cup DefCfaMutators
        \cup RegisterRuleOps
        \cup RestoreOps
        \cup {DW_CFA_restore_state, DW_CFA_remember_state, DW_CFA_nop}

\* C35: every instruction of a list the decoder returns is handled by the
\* interpreter: its code fp_base_op << 6 | fp_extended_op is a case label of
\* the interpreter's switch and does not reach the unsupported branch.
C35_DecodedAreInterpretable ==
    construction = "returned" =>
        \A i \in Decodeds : OpCode(decoded_instrs[i]) \in InterpreterOpcodes

\* A list of a packed and of an extended opcode has been returned.
C35_Witness ==
    /\ construction = "returned"
    /\ \E i \in Decodeds : decoded_instrs[i].fp_base_op # 0
    /\ \E i \in Decodeds : decoded_instrs[i].fp_extended_op > DW_CFA_advance_loc4

\* ------------------------------------------------------------------------
\* The frame_instrlist that Fde::decode constructs.

\* encap::frame_instrlist instrlist(dbg, 8, cie, instrs, instrs_len, true)
\* (frame.cpp:350): whatever the address size of the frame section, interp
\* constructs the list with addrlen 8 and in the host's byte order.
InterpInstrlistInit ==
    /\ instrs \in Streams(MaxChunks)
    /\ instrs_len = Len(instrs)
    /\ addrlen = 8
    /\ address_size \in {4, 8}
    /\ host_is_big_endian \in BOOLEAN
    /\ data_alignment_factor = -8
    /\ use_host_byte_order = TRUE
    /\ pos = 0
    /\ decoded_instrs = <<>>
    /\ construction = "running"
    /\ bytes_read = {}
    /\ opcode_offsets = <<>>
    /\ operands_read = <<>>

SpecInterpInstrlistInit ==
    InterpInstrlistInit /\ DecodeIdle /\ LebIdle /\ RewriterIdle /\ EdgeIdle /\ OpcodeArrayIdle

\* The construction of the instruction list inside Fde::decode.
SpecInterpInstrlist == SpecInterpInstrlistInit /\ [][DecoderNext]_vars

\* C32: Fde::decode decodes the address operand of set_loc with the address
\* size of the frame section: a decoded set_loc has consumed exactly
\* address_size operand bytes, 4 when the address size is 4 and 8 when it
\* is 8.
C32_SetLocUsesSectionAddressSize ==
    \A i \in Decodeds :
        OpcodeAt(i) = DW_CFA_set_loc =>
            EndOf(i) - (opcode_offsets[i] + 1) = address_size

-----------------------------------------------------------------------------
\* loc_expr::initialize_from_opcode_array (expr.hpp:141-182): a location
\* expression built from an array whose elements are opcodes, each followed
\* by its operands, one element per operand.

\* The longest opcode array explored.
MaxArrayLen == 3

\* The elements the arrays are drawn from: DW_OP_deref (0x06), DW_OP_constu
\* (0x10), DW_OP_breg7 (0x77), DW_OP_bregx (0x92) and 0xff, which the
\* format specification has no entry for.
OpcodeElements == {6, 16, 119, 146, 255}

RECURSIVE ArraysOfLen(_)
ArraysOfLen(n) ==
    IF n = 0 THEN {<<>>}
    ELSE {Append(a, e) : a \in ArraysOfLen(n - 1), e \in OpcodeElements}

OpcodeArrays == UNION {ArraysOfLen(n) : n \in 0..MaxArrayLen}

\* spec.op_operand_form_list(atom): the encoded forms of the operands of an
\* opcode in the format specification; DW_OP_deref has none, DW_OP_constu
\* an unsigned LEB128, DW_OP_breg7 a signed LEB128, DW_OP_bregx an unsigned
\* and a signed LEB128.
op_operand_form_list(atom) ==
    CASE atom = 6 -> <<>>
      [] atom = 16 -> <<"DW_FORM_udata">>
      [] atom = 119 -> <<"DW_FORM_sdata">>
      [] atom = 146 -> <<"DW_FORM_udata", "DW_FORM_sdata">>
      [] OTHER -> <<>>

\* spec.op_operand_count(atom): 0, 1 or 2 for an opcode of the format
\* specification, and no such count for any other.
op_operand_count(atom) ==
    IF atom \in {6, 16, 119, 146} THEN Len(op_operand_form_list(atom))
    ELSE -1

\* form_encoded_size(form), with sizeof (Dwarf_Unsigned) = sizeof
\* (Dwarf_Addr) = 8; 0 stands for the failed assert of the default case.
form_encoded_size(form) ==
    CASE form = "DW_FORM_addr" -> 8
      [] form = "DW_FORM_data1" -> 1
      [] form = "DW_FORM_data2" -> 2
      [] form = "DW_FORM_data4" -> 4
      [] form = "DW_FORM_data8" -> 8
      [] form = "DW_FORM_sdata" -> 8
      [] form = "DW_FORM_udata" -> 8
      [] OTHER -> 0

\* The values an element past the end of the array can hold when reading it
\* does not fault.
ElementsPastEnd == {0, 146}

\* *iter at offset i from begin: the element when i is inside the array;
\* outside it the behaviour is undefined, and the read either faults or
\* yields whatever the memory there holds.
Dereference(i) ==
    IF i < Len(arr) THEN {[fault |-> FALSE, value |-> arr[i + 1]]}
    ELSE {[fault |-> TRUE, value |-> 0]}
         \cup {[fault |-> FALSE, value |-> v] : v \in ElementsPastEnd}

\* Dwarf_Loc loc, as bzero and the assignments of one iteration leave it.
Dwarf_Loc(atom, number, number2, offset) ==
    [lr_atom |-> atom, lr_number |-> number, lr_number2 |-> number2,
     lr_offset |-> offset]

OpcodeArrayInit ==
    /\ arr \in OpcodeArrays
    /\ iter = 0
    /\ next_offset = 0
    /\ m_expr = <<>>
    /\ initialization = "running"
    /\ elements_read = {}

\* while (iter < end) ... case 0: the opcode is read and pushed back.
OpcodeCase0 ==
    /\ initialization = "running"
    /\ iter < Len(arr)
    /\ op_operand_count(arr[iter + 1]) = 0
    /\ elements_read' = elements_read \cup {iter}
    /\ iter' = iter + 1
    /\ next_offset' = next_offset + 1
    /\ m_expr' = Append(m_expr, Dwarf_Loc(arr[iter + 1], 0, 0, next_offset))
    /\ UNCHANGED <<arr, initialization>>
    /\ UNCHANGED <<decode_vars, decoder_vars, leb_vars, rewriter_vars,
                   edge_vars>>

\* while (iter < end) ... case 1: the opcode, then loc.lr_number = *iter++
\* with no test of iter against end.
OpcodeCase1 ==
    /\ initialization = "running"
    /\ iter < Len(arr)
    /\ op_operand_count(arr[iter + 1]) = 1
    /\ \E r \in Dereference(iter + 1) :
        /\ elements_read' = elements_read \cup {iter, iter + 1}
        /\ IF r.fault
           THEN /\ initialization' = "aborted"
                /\ UNCHANGED <<iter, next_offset, m_expr>>
           ELSE /\ iter' = iter + 2
                /\ next_offset' = next_offset + 1
                       + form_encoded_size(op_operand_form_list(arr[iter + 1])[1])
                /\ m_expr' = Append(m_expr,
                       Dwarf_Loc(arr[iter + 1], r.value, 0, next_offset))
                /\ UNCHANGED initialization
    /\ UNCHANGED arr
    /\ UNCHANGED <<decode_vars, decoder_vars, leb_vars, rewriter_vars,
                   edge_vars>>

\* while (iter < end) ... case 2: the opcode, then loc.lr_number = *iter++
\* and loc.lr_number2 = *iter++ with no test of iter against end.
OpcodeCase2 ==
    /\ initialization = "running"
    /\ iter < Len(arr)
    /\ op_operand_count(arr[iter + 1]) = 2
    /\ \E r1 \in Dereference(iter + 1) :
        IF r1.fault
        THEN /\ elements_read' = elements_read \cup {iter, iter + 1}
             /\ initialization' = "aborted"
             /\ UNCHANGED <<iter, next_offset, m_expr>>
        ELSE \E r2 \in Dereference(iter + 2) :
            /\ elements_read' = elements_read \cup {iter, iter + 1, iter + 2}
            /\ IF r2.fault
               THEN /\ initialization' = "aborted"
                    /\ UNCHANGED <<iter, next_offset, m_expr>>
               ELSE /\ iter' = iter + 3
                    /\ next_offset' = next_offset + 1
                           + form_encoded_size(op_operand_form_list(arr[iter + 1])[1])
                           + form_encoded_size(op_operand_form_list(arr[iter + 1])[2])
                    /\ m_expr' = Append(m_expr,
                           Dwarf_Loc(arr[iter + 1], r1.value, r2.value,
                                     next_offset))
                    /\ UNCHANGED initialization
    /\ UNCHANGED arr
    /\ UNCHANGED <<decode_vars, decoder_vars, leb_vars, rewriter_vars,
                   edge_vars>>

\* while (iter < end) ... default: assert(false), after the opcode is read
\* and next_offset advanced.
OpcodeDefault ==
    /\ initialization = "running"
    /\ iter < Len(arr)
    /\ op_operand_count(arr[iter + 1]) \notin {0, 1, 2}
    /\ elements_read' = elements_read \cup {iter}
    /\ iter' = iter + 1
    /\ next_offset' = next_offset + 1
    /\ initialization' = "aborted"
    /\ UNCHANGED <<arr, m_expr>>
    /\ UNCHANGED <<decode_vars, decoder_vars, leb_vars, rewriter_vars,
                   edge_vars>>

\* The loop ends once iter < end fails.
OpcodeArrayReturn ==
    /\ initialization = "running"
    /\ ~(iter < Len(arr))
    /\ initialization' = "returned"
    /\ UNCHANGED <<arr, iter, next_offset, m_expr, elements_read>>
    /\ UNCHANGED <<decode_vars, decoder_vars, leb_vars, rewriter_vars,
                   edge_vars>>

OpcodeArrayNext ==
    \/ OpcodeCase0
    \/ OpcodeCase1
    \/ OpcodeCase2
    \/ OpcodeDefault
    \/ OpcodeArrayReturn

SpecOpcodeArrayInit ==
    OpcodeArrayInit /\ DecodeIdle /\ DecoderIdle /\ LebIdle /\ RewriterIdle
        /\ EdgeIdle

\* loc_expr::initialize_from_opcode_array on one opcode array.
SpecOpcodeArray == SpecOpcodeArrayInit /\ [][OpcodeArrayNext]_vars

\* C33: decoding a location expression from an opcode array never reads an
\* element at or beyond the end of the array; when the operand count of the
\* last opcode exceeds the number of elements that remain, decoding fails
\* with no operand read past the end, and iter never passes end.
C33_NoReadPastEnd ==
    /\ \A i \in elements_read : i < Len(arr)
    /\ iter <= Len(arr)
=============================================================================
